---------------------------- MODULE Spec2Model ----------------------------
(***************************************************************************)
(* State-machine model of the audio-service backend.                       *)
(*                                                                         *)
(*  - exercise progression (Model B): the user_exercise_progress table,    *)
(*    ExerciseProgressionService.can_access_exercise / record_attempt and  *)
(*    the repository statements they issue;                                *)
(*  - the attempt pipeline: AudioProcessingService.process_audio_complete, *)
(*    the attempts table and the audio_features collection;                *)
(*  - the HTTP surface of POST /audio/process: route, controller and use   *)
(*    case.                                                                *)
(*                                                                         *)
(* Every awaited I/O operation of the source is one step of the model; the *)
(* synchronous code between two awaits belongs to the step that follows    *)
(* the first await.  Optional values (Python None) are sequences of length *)
(* at most one: None is << >> and a present value x is << x >>.            *)
(***************************************************************************)
EXTENDS Integers, Sequences, FiniteSets, TLC

(***************************************************************************)
(* Bounds of the model.                                                    *)
(***************************************************************************)
NumUsers == 2

NumExercises == 3

MaxAttempts == 3

Users == 1..NumUsers

ExerciseIds == 1..NumExercises

\* overall scores handed to record_attempt; one value on each side of every
\* threshold of update_from_attempt
ScoreValues == {0, 69, 70, 90}

Procs == {1}

\* the requests POST /audio/process serves at once on the event loop
Workers == {1, 2}

None == << >>

Some(x) == << x >>

VARIABLES
    active,     \* exercises.is_active: the ids the progression repository sees
    progress,   \* user_exercise_progress: <<user, exercise>> -> row
    clock,      \* datetime.utcnow(), a logical clock
    ra,         \* one frame per in-flight / finished record_attempt call
    attempts,   \* attempts table: id -> row
    features,   \* audio_features collection: the _id of every stored document
    pa,         \* frame of the process_audio_complete call
    rt,         \* frame of the HTTP request to POST /audio/process
    uep,        \* one UserExerciseProgress object and what was last done to it
    pg,         \* postgres_db, the process-wide PostgresDatabase, and its pools
    mg,         \* mongo_db, the process-wide MongoDatabase, and its clients
    cache,      \* reference_features_cache: exercise -> document
    bt,         \* the current run of the batch tool
    app,        \* the application process: lifespan, configured modules
    ah,         \* the attempt-history handlers: the table read, request, response
    qc,         \* one AudioValidator run: the measurements and what was made of them
    rh          \* one call of RhythmAnalyzer.analyze: frames, pauses, speech segments

progVars == << active, progress, clock, ra >>

audioVars == << attempts, features, pa >>

\* the state outside the progression service, the pipeline and the route
otherVars == << uep, pg, mg, cache, bt, app, ah, qc, rh >>

batchVars == << cache, bt >>

\* the state of the application process around its request handlers
serviceVars == << app, ah, qc, rh >>

vars == << active, progress, clock, ra, attempts, features, pa, rt, uep, pg, mg,
           cache, bt, app, ah, qc, rh >>

-----------------------------------------------------------------------------
(***************************************************************************)
(* Exercise (progression module) and its repository.  An exercise is       *)
(* identified by its position: the row with id e has order_index e.        *)
(***************************************************************************)
order_index(e) == e

is_first_exercise(e) == order_index(e) = 1

get_previous_order_index(e) == order_index(e) - 1

\* SELECT ... WHERE id = $1 AND is_active = true
get_by_id(e) == IF e \in active THEN Some(e) ELSE None

\* SELECT ... WHERE order_index = $1 AND is_active = true
get_by_order_index(i) ==
    IF \E e \in active : order_index(e) = i
    THEN Some(CHOOSE e \in active : order_index(e) = i)
    ELSE None

-----------------------------------------------------------------------------
(***************************************************************************)
(* UserExerciseProgress and its repository.                                *)
(***************************************************************************)
Statuses == {"locked", "available", "in_progress", "completed", "mastered"}

is_completed_or_started(row) == row.status \in {"completed", "mastered", "in_progress"}

is_completed(row) == row.status \in {"completed", "mastered"}

calculate_stars_two_from_79(row) ==
    IF row.best_score = None \/ row.best_score[1] < 70 THEN 0
    ELSE IF row.best_score[1] < 79 THEN 1
    ELSE IF row.best_score[1] < 90 THEN 2
    ELSE 3

calculate_stars(row) ==
    IF row.best_score = None \/ row.best_score[1] < 70 THEN 0
    ELSE IF row.best_score[1] < 80 THEN 1
    ELSE IF row.best_score[1] < 90 THEN 2
    ELSE 3

update_from_attempt_above_70(row, overall_score, now) ==
    LET best == IF row.best_score = None \/ overall_score > row.best_score[1]
                THEN Some(overall_score) ELSE row.best_score
        completed_at == IF overall_score > 70 /\ row.status # "completed"
                        THEN Some(now) ELSE row.completed_at
        status == IF overall_score > 70
                  THEN (IF overall_score >= 90 THEN "mastered" ELSE "completed")
                  ELSE IF row.status \in {"locked", "available"}
                       THEN "in_progress" ELSE row.status
    IN  [status |-> status,
         best_score |-> best,
         attempts_count |-> row.attempts_count + 1,
         last_attempt_at |-> Some(now),
         completed_at |-> completed_at]

update_from_attempt_last_score(row, overall_score, now) ==
    LET best == Some(overall_score)
        completed_at == IF overall_score >= 70 /\ row.status # "completed"
                        THEN Some(now) ELSE row.completed_at
        status == IF overall_score >= 70
                  THEN (IF overall_score >= 90 THEN "mastered" ELSE "completed")
                  ELSE IF row.status \in {"locked", "available"}
                       THEN "in_progress" ELSE row.status
    IN  [status |-> status,
         best_score |-> best,
         attempts_count |-> row.attempts_count + 1,
         last_attempt_at |-> Some(now),
         completed_at |-> completed_at]

update_from_attempt(row, overall_score, now) ==
    LET best == IF row.best_score = None \/ overall_score > row.best_score[1]
                THEN Some(overall_score) ELSE row.best_score
        completed_at == IF overall_score >= 70 /\ row.status # "completed"
                        THEN Some(now) ELSE row.completed_at
        status == IF overall_score >= 70
                  THEN (IF overall_score >= 90 THEN "mastered" ELSE "completed")
                  ELSE IF row.status \in {"locked", "available"}
                       THEN "in_progress" ELSE row.status
    IN  [status |-> status,
         best_score |-> best,
         attempts_count |-> row.attempts_count + 1,
         last_attempt_at |-> Some(now),
         completed_at |-> completed_at]

\* SELECT ... WHERE user_id = $1 AND exercise_id = $2
get_by_user_and_exercise(u, e) ==
    IF <<u, e>> \in DOMAIN progress THEN Some(progress[<<u, e>>]) ELSE None

\* INSERT ... ON CONFLICT (user_id, exercise_id) DO UPDATE SET ...
progress_save(table, u, e, row) ==
    [k \in DOMAIN table \cup {<<u, e>>} |-> IF k = <<u, e>> THEN row ELSE table[k]]

\* UPDATE ... SET status = 'available' WHERE ... AND status = 'locked'
unlock_exercise(table, u, e) ==
    [k \in DOMAIN table |->
        IF k = <<u, e>> /\ table[k].status = "locked"
        THEN [table[k] EXCEPT !.status = "available"]
        ELSE table[k]]

\* the row written by the bulk initializer for exercise e
InitialRow(e) ==
    [status |-> IF order_index(e) = 1 THEN "available" ELSE "locked",
     best_score |-> None,
     attempts_count |-> 0,
     last_attempt_at |-> None,
     completed_at |-> None]

initialize_user_progress_overwrite(table, u) ==
    [k \in DOMAIN table \cup {<<u, e>> : e \in active} |->
        IF k[1] = u /\ k[2] \in active THEN InitialRow(k[2]) ELSE table[k]]

\* INSERT ... SELECT ... FROM exercises e WHERE e.is_active ON CONFLICT DO NOTHING
initialize_user_progress(table, u) ==
    [k \in DOMAIN table \cup {<<u, e>> : e \in active} |->
        IF k \in DOMAIN table THEN table[k] ELSE InitialRow(k[2])]

-----------------------------------------------------------------------------
(***************************************************************************)
(* ExerciseProgressionService.can_access_exercise.  The Python expression  *)
(* `previous_progress and previous_progress.is_completed()` yields None    *)
(* when there is no row; the value is modelled as "none", and Truthy is    *)
(* how the callers (`if not has_access`) read it.                          *)
(***************************************************************************)
can_access_exercise(u, e) ==
    IF get_by_id(e) = None THEN "false"
    ELSE IF is_first_exercise(e) THEN "true"
    ELSE LET previous_exercise == get_by_order_index(get_previous_order_index(e))
         IN  IF previous_exercise = None THEN "false"
             ELSE LET previous_progress ==
                          get_by_user_and_exercise(u, previous_exercise[1])
                  IN  IF previous_progress = None THEN "none"
                      ELSE IF is_completed(previous_progress[1]) THEN "true"
                      ELSE "false"

Truthy(v) == v = "true"


-----------------------------------------------------------------------------
(***************************************************************************)
(* One UserExerciseProgress object through a sequence of attempts: the     *)
(* entity method, the result entry computed from it, and the star term of  *)
(* get_total_stars for its row.                                            *)
(***************************************************************************)
MaxUpdates == 3

\* overall scores of the attempts on the object; one value on each side of
\* every threshold of update_from_attempt and calculate_stars
AttemptScores == {0, 69, 70, 75, 79, 80, 89, 90, 92}

\* get_total_stars: the CASE term of one row; rows whose best_score IS NULL
\* are filtered out and add nothing to the SUM
total_stars_term(row) ==
    IF row.best_score = None THEN 0
    ELSE IF row.best_score[1] >= 90 THEN 3
    ELSE IF row.best_score[1] >= 80 THEN 2
    ELSE IF row.best_score[1] >= 70 THEN 1
    ELSE 0

NewObject(row) ==
    [progress |-> row,
     before |-> None,          \* history: the object before the last attempt
     overall_score |-> None,   \* the score of the last attempt
     now |-> 0,                \* datetime.utcnow(), a logical clock
     stars_earned |-> None,    \* the stars_earned entry computed after it
     first_pass |-> None]      \* history: the time of the first score >= 70

\* progress.update_from_attempt(overall_score), then stars_earned as
\* record_attempt computes it (line 226)
UpdateFromAttempt(s) ==
    /\ uep.now < MaxUpdates
    /\ LET now == uep.now + 1
           updated == update_from_attempt(uep.progress, s, now)
       IN  uep' = [progress |-> updated,
                   before |-> Some(uep.progress),
                   overall_score |-> Some(s),
                   now |-> now,
                   stars_earned |-> Some(calculate_stars(updated)),
                   first_pass |-> IF uep.first_pass = None /\ s >= 70
                                  THEN Some(now) ELSE uep.first_pass]
    /\ UNCHANGED << progVars, audioVars, rt, pg, mg, batchVars, serviceVars >>

-----------------------------------------------------------------------------
(***************************************************************************)
(* ExerciseProgressionService.record_attempt, one step per await.          *)
(***************************************************************************)
IdleFrame ==
    [pc |-> "idle", user_id |-> 1, exercise_id |-> 1, overall_score |-> 0,
     progress |-> None, was_completed_before |-> FALSE,
     exercise |-> None, next_exercise_entity |-> None,
     before |-> None,   \* history: the row as the call found it
     touched |-> {},    \* history: keys of the rows the call's statements wrote
     error |-> "", result |-> None]

\* the dict record_attempt returns
AttemptResult(row, unlocked_next, next_exercise) ==
    [progress_updated |-> TRUE,
     status |-> row.status,
     stars_earned |-> calculate_stars(row),
     best_score |-> row.best_score,
     unlocked_next |-> unlocked_next,
     next_exercise |-> next_exercise]

first_completion_unguarded(row, was_completed_before) == is_completed(row)

\* `if progress.is_completed() and not was_completed_before`
first_completion(row, was_completed_before) ==
    is_completed(row) /\ ~was_completed_before

\* lines 179-198: load the row; with no row the constructor call evaluates
\* datetime.utcnow(), and the module never imports datetime: NameError.
record_attempt_load(p, u, e, s) ==
    /\ ra[p].pc \in {"idle", "returned", "raised"}
    /\ clock < MaxAttempts
    /\ clock' = clock + 1
    /\ LET found == get_by_user_and_exercise(u, e)
           base == [IdleFrame EXCEPT !.user_id = u, !.exercise_id = e,
                                     !.overall_score = s]
       IN  IF found = None
           THEN ra' = [ra EXCEPT ![p] = [base EXCEPT !.pc = "raised",
                                                     !.error = "NameError"]]
           ELSE ra' = [ra EXCEPT ![p] =
                    [base EXCEPT
                        !.pc = "save",
                        !.before = found,
                        !.was_completed_before = is_completed(found[1]),
                        !.progress = Some(update_from_attempt(found[1], s, clock'))]]
    /\ UNCHANGED << active, progress, audioVars, rt, otherVars >>

\* lines 201-207: upsert, then decide whether this is the first completion
record_attempt_save(p) ==
    /\ ra[p].pc = "save"
    /\ LET f == ra[p]
           row == f.progress[1]
       IN  /\ progress' = progress_save(progress, f.user_id, f.exercise_id, row)
           /\ IF first_completion(row, f.was_completed_before)
              THEN ra' = [ra EXCEPT ![p].pc = "get_exercise",
                                    ![p].touched = @ \cup {<<f.user_id, f.exercise_id>>}]
              ELSE ra' = [ra EXCEPT ![p].pc = "returned",
                                    ![p].touched = @ \cup {<<f.user_id, f.exercise_id>>},
                                    ![p].result = Some(AttemptResult(row, FALSE, None))]
    /\ UNCHANGED << active, clock, audioVars, rt, otherVars >>

\* line 208; line 210 dereferences the result: AttributeError when it is None
record_attempt_get_exercise(p) ==
    /\ ra[p].pc = "get_exercise"
    /\ LET exercise == get_by_id(ra[p].exercise_id)
       IN  IF exercise = None
           THEN ra' = [ra EXCEPT ![p].pc = "raised", ![p].error = "AttributeError"]
           ELSE ra' = [ra EXCEPT ![p].pc = "get_next", ![p].exercise = exercise]
    /\ UNCHANGED << active, progress, clock, audioVars, rt, otherVars >>

\* lines 209-213
record_attempt_get_next(p) ==
    /\ ra[p].pc = "get_next"
    /\ LET f == ra[p]
           nxt == get_by_order_index(order_index(f.exercise[1]) + 1)
       IN  IF nxt = None
           THEN ra' = [ra EXCEPT ![p].pc = "returned",
                                 ![p].result = Some(AttemptResult(f.progress[1], FALSE, None))]
           ELSE ra' = [ra EXCEPT ![p].pc = "unlock", ![p].next_exercise_entity = nxt]
    /\ UNCHANGED << active, progress, clock, audioVars, rt, otherVars >>

\* lines 214-230
record_attempt_unlock(p) ==
    /\ ra[p].pc = "unlock"
    /\ LET f == ra[p]
           nxt == f.next_exercise_entity[1]
           key == <<f.user_id, nxt>>
           written == key \in DOMAIN progress /\ progress[key].status = "locked"
       IN  /\ progress' = unlock_exercise(progress, f.user_id, nxt)
           /\ ra' = [ra EXCEPT
                        ![p].pc = "returned",
                        ![p].touched = IF written THEN @ \cup {key} ELSE @,
                        ![p].result = Some(AttemptResult(f.progress[1], TRUE,
                                                         Some(order_index(nxt))))]
    /\ UNCHANGED << active, clock, audioVars, rt, otherVars >>

\* POST /exercises/initialize-progress
InitializeProgress(u) ==
    /\ progress' = initialize_user_progress(progress, u)
    /\ progress' # progress
    /\ UNCHANGED << active, clock, ra, audioVars, rt, otherVars >>

\* _group_by_category for one exercise of get_all_ordered (the active ones):
\* `status = progress.status if progress else "locked"`
exercise_map_status(u, e) ==
    LET found == get_by_user_and_exercise(u, e)
    IN  IF found = None THEN "locked" ELSE found[1].status

-----------------------------------------------------------------------------
(***************************************************************************)
(* Attempt and AttemptRepositoryImpl.  The id of an in-memory attempt is   *)
(* None while it is the locally generated uuid4 (which matches no row) and *)
(* << n >> once the store has assigned it.                                 *)
(***************************************************************************)
MaxRequests == 2

ScoreKeys == {"pronunciation", "fluency", "rhythm", "overall"}

\* scores a scoring-service body can carry
MlScoreValues == {0, 85}

NewAttempt(status) ==
    [id |-> None, status |-> status, analyzed_at |-> None,
     overall_score |-> None, pronunciation_score |-> None,
     fluency_score |-> None, rhythm_score |-> None,
     features_doc_id |-> None]

\* the columns save() writes
RowOf(att) ==
    [status |-> att.status, analyzed_at |-> att.analyzed_at,
     overall_score |-> att.overall_score,
     pronunciation_score |-> att.pronunciation_score,
     fluency_score |-> att.fluency_score,
     rhythm_score |-> att.rhythm_score,
     features_doc_id |-> att.features_doc_id]

\* the identifier the store assigns at INSERT
AssignedId(table) == Cardinality(DOMAIN table) + 1

attempt_save_id_always_insert(table, att) == Some(AssignedId(table))

\* UPDATE ... WHERE id = $1 RETURNING id, else INSERT ... RETURNING id:
\* the id the attempt object carries when save returns
attempt_save_id(table, att) ==
    IF att.id # None /\ att.id[1] \in DOMAIN table
    THEN att.id ELSE Some(AssignedId(table))

attempt_save(table, att) ==
    LET id == attempt_save_id(table, att)[1]
    IN  [k \in DOMAIN table \cup {id} |-> IF k = id THEN RowOf(att) ELSE table[k]]

update_scores_keeps_status(table, id, overall, pronunciation, fluency, rhythm, now) ==
    [k \in DOMAIN table |->
        IF k = id
        THEN [table[k] EXCEPT !.overall_score = overall,
                              !.pronunciation_score = pronunciation,
                              !.fluency_score = fluency,
                              !.rhythm_score = rhythm,
                              !.analyzed_at = Some(now)]
        ELSE table[k]]

\* UPDATE attempts SET <four scores>, analyzed_at, status = 'completed' WHERE id = $1
update_scores(table, id, overall, pronunciation, fluency, rhythm, now) ==
    [k \in DOMAIN table |->
        IF k = id
        THEN [table[k] EXCEPT !.overall_score = overall,
                              !.pronunciation_score = pronunciation,
                              !.fluency_score = fluency,
                              !.rhythm_score = rhythm,
                              !.analyzed_at = Some(now),
                              !.status = "completed"]
        ELSE table[k]]

-----------------------------------------------------------------------------
(***************************************************************************)
(* The scoring service as seen by _call_ml_service, and lines 172-177.     *)
(***************************************************************************)
\* outcomes in which client.post / the status check / response.json() raises
RaisingKinds == {"transport_error", "timeout", "non_200", "unparsable_body"}

\* 200 with a JSON body that has no usable `scores` object
MalformedKinds == {"no_scores_key", "scores_not_object"}

ScoresObjects ==
    {[k \in ScoreKeys |-> IF k \in present THEN Some(85) ELSE None] :
        present \in SUBSET ScoreKeys}
    \cup {[k \in ScoreKeys |-> Some(v)] : v \in MlScoreValues}

MlResponses ==
    {[kind |-> k, scores |-> [x \in ScoreKeys |-> None]] :
        k \in RaisingKinds \cup MalformedKinds}
    \cup {[kind |-> "scores", scores |-> sc] : sc \in ScoresObjects}

\* _call_ml_service: the parsed body, or None when the call raised
call_ml_service(response) ==
    IF response.kind \in RaisingKinds THEN None ELSE Some(response)

\* ml_response['scores'] raises KeyError / AttributeError on these bodies
scores_lookup_raises(body) == body.kind \in MalformedKinds

apply_scores_no_timestamp(att, body, now) ==
    [att EXCEPT !.pronunciation_score = body.scores["pronunciation"],
                !.fluency_score = body.scores["fluency"],
                !.rhythm_score = body.scores["rhythm"],
                !.overall_score = body.scores["overall"],
                !.status = "completed"]

\* lines 172-177: dict.get yields None for a key the scores object lacks
apply_scores(att, body, now) ==
    [att EXCEPT !.pronunciation_score = body.scores["pronunciation"],
                !.fluency_score = body.scores["fluency"],
                !.rhythm_score = body.scores["rhythm"],
                !.overall_score = body.scores["overall"],
                !.status = "completed",
                !.analyzed_at = Some(now)]

\* lines 191-213: the result dict
ProcessResult(att) ==
    [attempt_id |-> att.id,
     status |-> att.status,
     scores |-> [k \in ScoreKeys |->
                    IF k = "pronunciation" THEN att.pronunciation_score
                    ELSE IF k = "fluency" THEN att.fluency_score
                    ELSE IF k = "rhythm" THEN att.rhythm_score
                    ELSE att.overall_score],
     analyzed_at |-> att.analyzed_at]


-----------------------------------------------------------------------------
(***************************************************************************)
(* AudioProcessingService.process_audio_complete.                          *)
(***************************************************************************)
Audios == {"undecodable", "valid", "too_short", "low_snr"}

\* AudioValidator.validate, as far as the service reads its result
validate(audio) ==
    [is_valid |-> audio = "valid",
     rejection_reason |-> IF audio = "too_short" THEN "El audio es muy corto"
                          ELSE IF audio = "low_snr" THEN "Demasiado ruido de fondo"
                          ELSE ""]

PipelineScorerFirst ==
    << "load", "validate", "normalize", "extract", "save_attempt",
       "call_ml", "save_features", "save_pointer", "save_completed", "return" >>

PipelineFeaturesLast ==
    << "load", "validate", "normalize", "extract", "save_attempt",
       "call_ml", "save_completed", "save_features", "save_pointer", "return" >>

\* the order of the statements of process_audio_complete for valid audio
Pipeline ==
    << "load", "validate", "normalize", "extract", "save_attempt",
       "save_features", "save_pointer", "call_ml", "save_completed", "return" >>

step_after(step) ==
    Pipeline[(CHOOSE i \in 1..Len(Pipeline) : Pipeline[i] = step) + 1]

IdleCall ==
    [pc |-> "idle", audio |-> "valid", quality_check |-> None,
     attempt |-> None, ml |-> None, ml_response |-> None,
     result |-> None, error |-> "", message |-> "",
     log |-> << >>,          \* history: the steps executed so far, in order
     rows_before |-> {}]     \* history: the ids stored when the call began

Advance(frame, step) ==
    [frame EXCEPT !.pc = step_after(step), !.log = Append(@, step)]

process_audio_complete_call(audio) ==
    /\ pa.pc \in {"idle", "returned", "raised"}
    /\ Cardinality(DOMAIN attempts) < MaxRequests
    /\ pa' = [IdleCall EXCEPT !.pc = "load", !.audio = audio,
                              !.rows_before = DOMAIN attempts]
    /\ UNCHANGED << progVars, attempts, features, rt, otherVars >>

\* line 79: AudioLoader.load_from_base64 raises ValueError on undecodable input
pa_load ==
    /\ pa.pc = "load"
    /\ IF pa.audio = "undecodable"
       THEN pa' = [pa EXCEPT !.pc = "raised", !.error = "ValueError",
                             !.message = "Error decodificando base64",
                             !.log = Append(@, "load")]
       ELSE pa' = Advance(pa, "load")
    /\ UNCHANGED << progVars, attempts, features, rt, otherVars >>

\* lines 82-98
pa_validate ==
    /\ pa.pc = "validate"
    /\ LET quality_check == validate(pa.audio)
       IN  IF quality_check.is_valid
           THEN pa' = [Advance(pa, "validate") EXCEPT
                          !.quality_check = Some(quality_check)]
           ELSE pa' = [pa EXCEPT !.pc = "save_rejected",
                                 !.log = Append(@, "validate"),
                                 !.quality_check = Some(quality_check),
                                 !.attempt = Some(NewAttempt("quality_rejected"))]
    /\ UNCHANGED << progVars, attempts, features, rt, otherVars >>

\* lines 101-103
pa_save_rejected ==
    /\ pa.pc = "save_rejected"
    /\ attempts' = attempt_save(attempts, pa.attempt[1])
    /\ pa' = [pa EXCEPT !.pc = "raised", !.error = "ValueError",
                        !.message = pa.quality_check[1].rejection_reason,
                        !.attempt = Some([pa.attempt[1] EXCEPT
                                            !.id = attempt_save_id(attempts, pa.attempt[1])]),
                        !.log = Append(@, "save_rejected")]
    /\ UNCHANGED << progVars, features, rt, otherVars >>

\* lines 106-111
pa_normalize ==
    /\ pa.pc = "normalize"
    /\ pa' = Advance(pa, "normalize")
    /\ UNCHANGED << progVars, attempts, features, rt, otherVars >>

\* lines 114-142
pa_extract ==
    /\ pa.pc = "extract"
    /\ pa' = [Advance(pa, "extract") EXCEPT
                 !.attempt = Some(NewAttempt("pending_analysis"))]
    /\ UNCHANGED << progVars, attempts, features, rt, otherVars >>

\* line 145
pa_save_attempt ==
    /\ pa.pc = "save_attempt"
    /\ attempts' = attempt_save(attempts, pa.attempt[1])
    /\ pa' = [Advance(pa, "save_attempt") EXCEPT
                 !.attempt = Some([pa.attempt[1] EXCEPT
                                     !.id = attempt_save_id(attempts, pa.attempt[1])])]
    /\ UNCHANGED << progVars, features, rt, otherVars >>

\* lines 148-151: the document is keyed by attempt.id
pa_save_features ==
    /\ pa.pc = "save_features"
    /\ features' = features \cup {pa.attempt[1].id}
    /\ pa' = Advance(pa, "save_features")
    /\ UNCHANGED << progVars, attempts, rt, otherVars >>

\* lines 154-155
pa_save_pointer ==
    /\ pa.pc = "save_pointer"
    /\ LET att == [pa.attempt[1] EXCEPT !.features_doc_id = pa.attempt[1].id]
       IN  /\ attempts' = attempt_save(attempts, att)
           /\ pa' = [Advance(pa, "save_pointer") EXCEPT
                        !.attempt = Some([att EXCEPT !.id = attempt_save_id(attempts, att)])]
    /\ UNCHANGED << progVars, features, rt, otherVars >>

\* lines 158-177 and 184-187: the call, the copy of the scores, the catch-all
pa_call_ml(response) ==
    /\ pa.pc = "call_ml"
    /\ LET ml_response == call_ml_service(response)
       IN  IF ml_response = None \/ scores_lookup_raises(ml_response[1])
           THEN pa' = [pa EXCEPT !.pc = "return", !.ml = Some(response),
                                 !.log = Append(@, "call_ml")]
           ELSE pa' = [Advance(pa, "call_ml") EXCEPT
                          !.ml = Some(response),
                          !.ml_response = ml_response,
                          !.attempt = Some(apply_scores(pa.attempt[1], ml_response[1], clock))]
    /\ UNCHANGED << progVars, attempts, features, rt, otherVars >>

\* line 180
pa_save_completed ==
    /\ pa.pc = "save_completed"
    /\ attempts' = attempt_save(attempts, pa.attempt[1])
    /\ pa' = [Advance(pa, "save_completed") EXCEPT
                 !.attempt = Some([pa.attempt[1] EXCEPT
                                     !.id = attempt_save_id(attempts, pa.attempt[1])])]
    /\ UNCHANGED << progVars, features, rt, otherVars >>

\* line 180 when the store raises (connection lost, statement refused): the
\* catch-all of lines 184-187 logs it and the call goes on to build its result
pa_save_completed_raises ==
    /\ pa.pc = "save_completed"
    /\ pa' = [pa EXCEPT !.pc = "return", !.log = Append(@, "save_completed_raised")]
    /\ UNCHANGED << progVars, attempts, features, rt, otherVars >>

\* lines 191-227
pa_return ==
    /\ pa.pc = "return"
    /\ pa' = [pa EXCEPT !.pc = "returned",
                        !.result = Some(ProcessResult(pa.attempt[1]))]
    /\ UNCHANGED << progVars, attempts, features, rt, otherVars >>

\* AttemptRepositoryImpl.update_scores, called with four scores for a stored row
UpdateScores(id, v) ==
    /\ id \in DOMAIN attempts
    /\ attempts' = update_scores(attempts, id, Some(v), Some(v), Some(v), Some(v), clock)
    /\ attempts' # attempts
    /\ UNCHANGED << progVars, features, pa, rt, otherVars >>


-----------------------------------------------------------------------------
(***************************************************************************)
(* POST /audio/process: the route, the controller it calls and the use     *)
(* case behind the controller.                                             *)
(***************************************************************************)
\* the exercise_id strings a request can carry: one per exercise, one unknown
RequestedIds == 1..(NumExercises + 1)

RouteAudios == {"valid", "low_snr"}

\* SELECT ... WHERE exercise_id = $1 AND is_active = true
get_by_exercise_id(x) == IF x \in active THEN Some(x) ELSE None

\* the keyword arguments of the route's call to controller.process_audio
RouteKwargs ==
    {"audio_base64", "exercise_id", "user_id", "metadata", "reference_text"}

\* the parameters AudioProcessingController.process_audio declares
ControllerParams == {"user_id", "exercise_id", "audio_base64", "metadata"}

\* the methods ValidationService defines
ValidationServiceMethods ==
    {"can_user_attempt_exercise", "validate_attempt_ownership",
     "validate_exercise_prerequisites"}

Outcome(raised, status_code, detail, data) ==
    [raised |-> raised, status_code |-> status_code, detail |-> detail,
     data |-> data]

\* ProcessAudioUseCase.execute: its first statement calls
\* validation_service.validate_exercise_exists
execute(audio) ==
    IF "validate_exercise_exists" \notin ValidationServiceMethods
    THEN Outcome("AttributeError", None, "validate_exercise_exists", None)
    ELSE IF ~validate(audio).is_valid
    THEN Outcome("ValueError", None, validate(audio).rejection_reason, None)
    ELSE Outcome("", None, "", Some([attempt_id |-> None]))

\* AudioProcessingController.process_audio: binding the arguments, then the
\* try block with its three handlers
controller_process_audio(kwargs, audio) ==
    IF ~(kwargs \subseteq ControllerParams)
    THEN Outcome("TypeError", None, "unexpected keyword argument", None)
    ELSE LET response == execute(audio)
         IN  IF response.raised = "ValueError"
             THEN Outcome("HTTPException", Some(400), response.detail, None)
             ELSE IF response.raised # ""
             THEN Outcome("HTTPException", Some(500),
                          "Error interno al procesar audio", None)
             ELSE Outcome("", Some(200), "", response.data)

\* what the framework answers for what the route function raised
http_status(outcome) ==
    IF outcome.raised = "HTTPException" THEN outcome.status_code
    ELSE IF outcome.raised # "" THEN Some(500)
    ELSE Some(200)

IdleRequest ==
    [pc |-> "idle", user_id |-> 1, exercise_id |-> 1, audio |-> "valid",
     exercise |-> None, status_code |-> None, detail |-> "",
     past_gate |-> FALSE,       \* history: the access check let the request on
     overall_score |-> None,    \* the overall score the controller returned
     recorded |-> 0,            \* history: calls of record_attempt made
     progression |-> None,      \* the progression entry of the response body
     rows_before |-> {}]        \* history: attempt ids at the gate

process_audio_request(u, x, audio) ==
    /\ rt.pc \in {"idle", "done"}
    /\ rt' = [IdleRequest EXCEPT !.pc = "lookup", !.user_id = u,
                                 !.exercise_id = x, !.audio = audio]
    /\ UNCHANGED << progVars, audioVars, otherVars >>

\* lines 164-174
process_audio_lookup ==
    /\ rt.pc = "lookup"
    /\ LET exercise == get_by_exercise_id(rt.exercise_id)
       IN  IF exercise = None
           THEN rt' = [rt EXCEPT !.pc = "done", !.status_code = Some(404),
                                 !.detail = "Ejercicio no encontrado"]
           ELSE rt' = [rt EXCEPT !.pc = "gate", !.exercise = exercise]
    /\ UNCHANGED << progVars, audioVars, otherVars >>

process_audio_gate_attempt_first ==
    /\ rt.pc = "gate"
    /\ LET has_access == can_access_exercise(rt.user_id, rt.exercise[1])
           k == <<rt.user_id, rt.exercise[1]>>
       IN  /\ IF ~Truthy(has_access)
              THEN rt' = [rt EXCEPT !.pc = "done", !.status_code = Some(403),
                                    !.detail = "Ejercicio bloqueado"]
              ELSE rt' = [rt EXCEPT !.pc = "controller", !.past_gate = TRUE,
                                    !.rows_before = DOMAIN attempts]
           /\ progress' = [j \in DOMAIN progress |->
                              IF j = k THEN update_from_attempt(progress[j], 0, clock)
                              ELSE progress[j]]
    /\ UNCHANGED << active, clock, ra, audioVars, otherVars >>

\* lines 176-183
process_audio_gate ==
    /\ rt.pc = "gate"
    /\ LET has_access == can_access_exercise(rt.user_id, rt.exercise[1])
       IN  IF ~Truthy(has_access)
           THEN rt' = [rt EXCEPT !.pc = "done", !.status_code = Some(403),
                                 !.detail = "Ejercicio bloqueado"]
           ELSE rt' = [rt EXCEPT !.pc = "controller", !.past_gate = TRUE,
                                 !.rows_before = DOMAIN attempts]
    /\ UNCHANGED << progVars, audioVars, otherVars >>

\* lines 185-195: the call of the controller; whatever it raises ends the
\* request, and step 5 runs only on a normal return
process_audio_controller ==
    /\ rt.pc = "controller"
    /\ LET result == controller_process_audio(RouteKwargs, rt.audio)
       IN  IF result.raised # ""
           THEN rt' = [rt EXCEPT !.pc = "done",
                                 !.status_code = http_status(result),
                                 !.detail = result.detail]
           ELSE rt' = [rt EXCEPT !.pc = "step5"]
    /\ UNCHANGED << progVars, audioVars, otherVars >>

-----------------------------------------------------------------------------
(***************************************************************************)
(* The two connection managers, src/db/postgres.py and src/db/mongodb.py.  *)
(* A pool or client is identified by the order of its creation.            *)
(***************************************************************************)
MaxPools == 3

\* a manager after __init__: nothing held, nothing ever created
NewManager ==
    [held |-> None,        \* self.pool / self.client
     open |-> {},          \* history: the pools / clients created and not closed
     created |-> 0,        \* history: how many were created
     pc |-> "idle",        \* "create": inside connect, after closing the old pool
     call |-> "",          \* history: the method called last
     got |-> None]         \* the outcome of the last get_pool / get_client

Got(raised, value) == [raised |-> raised, value |-> value]

\* await self.pool.close(); self.pool = None
close_held(m) ==
    IF m.held = None THEN m
    ELSE [m EXCEPT !.open = @ \ {m.held[1]}, !.held = None]

\* self.pool = await asyncpg.create_pool(...) / self.client = AsyncIOMotorClient(...)
create_held(m) ==
    [m EXCEPT !.created = @ + 1, !.held = Some(m.created + 1),
              !.open = @ \cup {m.created + 1}]

postgres_connect_keeps_old(m) == m

\* PostgresDatabase.connect, lines 22-25: an existing pool is closed first
postgres_connect_close(m) == close_held(m)

mongo_connect_always_creates(m) == create_held(m)

\* MongoDatabase.connect: a client is created only when none is held
mongo_connect(m) == IF m.held = None THEN create_held(m) ELSE m

get_pool_unchecked(m) == Got(FALSE, m.held)

\* PostgresDatabase.get_pool: RuntimeError when no pool is held
get_pool(m) ==
    IF m.held = None THEN Got(TRUE, None) ELSE Got(FALSE, m.held)

\* MongoDatabase.get_client: RuntimeError when no client is held
get_client(m) ==
    IF m.held = None THEN Got(TRUE, None) ELSE Got(FALSE, m.held)

\* connect up to the await of create_pool
PostgresConnectClose ==
    /\ pg.pc = "idle"
    /\ pg.created < MaxPools
    /\ pg' = [postgres_connect_close(pg) EXCEPT !.pc = "create", !.got = None,
                                                !.call = "connect"]
    /\ UNCHANGED << progVars, audioVars, rt, uep, mg, batchVars, serviceVars >>

\* create_pool returns the new pool, or raises and leaves nothing held
PostgresConnectCreate(ok) ==
    /\ pg.pc = "create"
    /\ pg' = IF ok THEN [create_held(pg) EXCEPT !.pc = "idle", !.got = None]
             ELSE [pg EXCEPT !.pc = "idle", !.got = None]
    /\ UNCHANGED << progVars, audioVars, rt, uep, mg, batchVars, serviceVars >>

PostgresDisconnect ==
    /\ pg.pc = "idle"
    /\ pg' = [close_held(pg) EXCEPT !.got = None, !.call = "disconnect"]
    /\ pg' # pg
    /\ UNCHANGED << progVars, audioVars, rt, uep, mg, batchVars, serviceVars >>

PostgresGetPool ==
    /\ pg' = [pg EXCEPT !.got = Some(get_pool(pg)), !.call = "get_pool"]
    /\ pg' # pg
    /\ UNCHANGED << progVars, audioVars, rt, uep, mg, batchVars, serviceVars >>

MongoConnect ==
    /\ mg.created < MaxPools
    /\ mg' = [mongo_connect(mg) EXCEPT !.got = None, !.call = "connect"]
    /\ mg' # mg
    /\ UNCHANGED << progVars, audioVars, rt, uep, pg, batchVars, serviceVars >>

MongoDisconnect ==
    /\ mg' = [close_held(mg) EXCEPT !.got = None, !.call = "disconnect"]
    /\ mg' # mg
    /\ UNCHANGED << progVars, audioVars, rt, uep, pg, batchVars, serviceVars >>

MongoGetClient ==
    /\ mg' = [mg EXCEPT !.got = Some(get_client(mg)), !.call = "get_client"]
    /\ mg' # mg
    /\ UNCHANGED << progVars, audioVars, rt, uep, pg, batchVars, serviceVars >>

-----------------------------------------------------------------------------
(***************************************************************************)
(* scripts/precompute_reference_features.py: ReferenceFeaturePrecomputer.  *)
(* One run is one process: a new precomputer with its counters at zero.    *)
(***************************************************************************)
MaxRuns == 2

EmptyCache == [e \in {} |-> [cached_at |-> 0, cache_version |-> "v1.0"]]

\* get_exercises_from_db: the active exercises, ORDER BY exercise_id
exercises_from_db ==
    CHOOSE q \in [1..Cardinality(active) -> active] :
        \A i, j \in 1..Cardinality(active) : i < j => q[i] < q[j]

\* feature_exists_in_mongodb
feature_exists(e) == e \in DOMAIN cache

\* save_features_to_mongodb: update_one({"exercise_id": e}, {"$set": document}, upsert=True)
save_features(table, e, now) ==
    [k \in DOMAIN table \cup {e} |->
        IF k = e THEN [cached_at |-> now, cache_version |-> "v1.0"] ELSE table[k]]

NewRun ==
    [pc |-> "idle", force_recompute |-> FALSE, run |-> 0,
     exercises |-> << >>, i |-> 0,
     processed_count |-> 0, failed_count |-> 0, skipped_count |-> 0,
     processed |-> {}, failed |-> {}, skipped |-> {},  \* history: who was counted where
     downloaded |-> {},          \* history: the exercises whose audio was downloaded
     temp_files |-> {},          \* the exercises whose temporary audio file is on disk
     raised |-> {},              \* history: the exercises one of whose steps raised
     cache_before |-> EmptyCache]  \* history: the collection when the run began

first_step_always_download(force_recompute) == "download"

\* process_exercise, lines 142-148: the existence check is made unless forced
first_step(force_recompute) == IF force_recompute THEN "download" ELSE "check"

\* the for loop of run: the next exercise, or the summary after the last
next_exercise(frame) ==
    IF frame.i < Len(frame.exercises)
    THEN [frame EXCEPT !.i = @ + 1, !.pc = first_step(frame.force_recompute)]
    ELSE [frame EXCEPT !.pc = "finish"]

Exercise == bt.exercises[bt.i]

count_processed(frame, e) ==
    [frame EXCEPT !.processed_count = @ + 1, !.processed = @ \cup {e}]

count_skipped(frame, e) ==
    [frame EXCEPT !.skipped_count = @ + 1, !.skipped = @ \cup {e}]

\* the except clause of process_exercise, lines 172-177
count_failed(frame, e) ==
    [frame EXCEPT !.failed_count = @ + 1, !.failed = @ \cup {e},
                  !.raised = @ \cup {e}]

\* run, lines 201-205: a new process connects both managers
BatchRun(force_recompute) ==
    /\ bt.pc \in {"idle", "done", "aborted"}
    /\ bt.run < MaxRuns
    /\ bt' = [NewRun EXCEPT !.pc = "fetch", !.force_recompute = force_recompute,
                            !.run = bt.run + 1, !.cache_before = cache]
    /\ pg' = [create_held(postgres_connect_close(pg)) EXCEPT
                 !.call = "connect", !.got = None]
    /\ mg' = [mongo_connect(mg) EXCEPT !.call = "connect", !.got = None]
    /\ UNCHANGED << progVars, audioVars, rt, uep, cache, serviceVars >>

\* run, lines 207-221: the exercises are read; none ends the run
BatchFetch ==
    /\ bt.pc = "fetch"
    /\ LET exercises == exercises_from_db
       IN  bt' = IF Len(exercises) = 0
                 THEN [bt EXCEPT !.pc = "finish"]
                 ELSE [bt EXCEPT !.exercises = exercises, !.i = 1,
                                 !.pc = first_step(bt.force_recompute)]
    /\ UNCHANGED << progVars, audioVars, rt, uep, pg, mg, cache, serviceVars >>

\* process_exercise, lines 142-148: the check is made outside the try block,
\* so what it raises leaves process_exercise and the loop of run
BatchCheck(ok) ==
    /\ bt.pc = "check"
    /\ bt' = IF ~ok
             THEN [bt EXCEPT !.pc = "abort", !.raised = @ \cup {Exercise}]
             ELSE IF feature_exists(Exercise)
             THEN next_exercise(count_skipped(bt, Exercise))
             ELSE [bt EXCEPT !.pc = "download"]
    /\ UNCHANGED << progVars, audioVars, rt, uep, pg, mg, cache, serviceVars >>

\* download_audio_from_s3, line 115: NamedTemporaryFile(delete=False)
create_temp_file(frame, e) == [frame EXCEPT !.temp_files = @ \cup {e}]

\* process_exercise, line 165: os.unlink(audio_path)
unlink_temp_file(frame, e) == [frame EXCEPT !.temp_files = @ \ {e}]

\* lines 150-152: download_audio_from_s3
BatchDownload(ok) ==
    /\ bt.pc = "download"
    /\ bt' = IF ok
             THEN [create_temp_file(bt, Exercise) EXCEPT
                      !.pc = "calculate", !.downloaded = @ \cup {Exercise}]
             ELSE next_exercise(count_failed(bt, Exercise))
    /\ UNCHANGED << progVars, audioVars, rt, uep, pg, mg, cache, serviceVars >>

\* lines 154-158: calculate_all_features
BatchCalculate(ok) ==
    /\ bt.pc = "calculate"
    /\ bt' = IF ok THEN [bt EXCEPT !.pc = "save"]
             ELSE next_exercise(count_failed(bt, Exercise))
    /\ UNCHANGED << progVars, audioVars, rt, uep, pg, mg, cache, serviceVars >>

\* lines 160-170: save_features_to_mongodb, then the count
BatchSave(ok) ==
    /\ bt.pc = "save"
    /\ IF ok
       THEN /\ cache' = save_features(cache, Exercise, bt.run)
            /\ bt' = next_exercise(count_processed(unlink_temp_file(bt, Exercise),
                                                    Exercise))
       ELSE /\ cache' = cache
            /\ bt' = next_exercise(count_failed(bt, Exercise))
    /\ UNCHANGED << progVars, audioVars, rt, uep, pg, mg, serviceVars >>

\* run, lines 223-242: the summary, and the finally clause either way
BatchFinish ==
    /\ bt.pc \in {"finish", "abort"}
    /\ bt' = [bt EXCEPT !.pc = IF bt.pc = "finish" THEN "done" ELSE "aborted"]
    /\ pg' = [close_held(pg) EXCEPT !.call = "disconnect", !.got = None]
    /\ mg' = [close_held(mg) EXCEPT !.call = "disconnect", !.got = None]
    /\ UNCHANGED << progVars, audioVars, rt, uep, cache, serviceVars >>

-----------------------------------------------------------------------------
(***************************************************************************)
(* main.py: lifespan.  One step per await; the server dispatches requests  *)
(* between the yield and the shutdown half.                                *)
(***************************************************************************)
MaxServed == 2

NewApp ==
    [pc |-> "postgres_connect",
     log |-> << >>,                 \* history: the startup steps completed
     exercises_pool |-> None,       \* exercises dependencies._postgres_pool
     exercises_client |-> None,     \* exercises dependencies._mongo_client
     audio_pool |-> None,           \* audio_processing dependencies._postgres_pool
     audio_client |-> None,         \* audio_processing dependencies._mongo_client
     raised |-> FALSE,              \* the exception left lifespan
     served |-> 0,                  \* history: requests dispatched
     answer |-> None]               \* what the last request's dependency got

Done(frame, step) == [frame EXCEPT !.log = Append(@, step)]

startup_swallow(frame) == [frame EXCEPT !.pc = "serving"]

\* lines 84-86: except Exception: print; raise
startup_raise(frame) == [frame EXCEPT !.pc = "failed", !.raised = TRUE]

\* dependencies.get_postgres_pool / get_mongo_client: RuntimeError when not configured
dependency_get(ref) == IF ref = None THEN Got(TRUE, None) ELSE Got(FALSE, ref)

\* line 51: await postgres_db.connect()
LifespanPostgresConnect(ok) ==
    /\ app.pc = "postgres_connect"
    /\ pg' = [IF ok THEN create_held(postgres_connect_close(pg))
                    ELSE postgres_connect_close(pg)
                 EXCEPT !.call = "connect", !.got = None]
    /\ app' = IF ok THEN [Done(app, "postgres_connect") EXCEPT !.pc = "mongo_connect"]
              ELSE startup_raise(app)
    /\ UNCHANGED << progVars, audioVars, rt, uep, mg, batchVars, ah, qc, rh >>

\* lines 55-64: mongo_db.connect(), the exercises module is handed the pool
\* and the client, up to the await of its initialize_repositories
LifespanMongoConnect(ok) ==
    /\ app.pc = "mongo_connect"
    /\ LET m == IF ok THEN mongo_connect(mg) ELSE mg
           pool == get_pool(pg)
           client == get_client(m)
       IN  /\ mg' = [m EXCEPT !.call = "connect", !.got = None]
           /\ app' = IF ~ok THEN startup_raise(app)
                     ELSE IF pool.raised THEN startup_raise(Done(app, "mongo_connect"))
                     ELSE IF client.raised
                     THEN startup_raise([Done(app, "mongo_connect") EXCEPT
                                            !.exercises_pool = pool.value])
                     ELSE [Done(Done(app, "mongo_connect"), "configure_exercises")
                              EXCEPT !.exercises_pool = pool.value,
                                     !.exercises_client = client.value,
                                     !.pc = "initialize_exercises"]
    /\ UNCHANGED << progVars, audioVars, rt, uep, pg, batchVars, ah, qc, rh >>

\* lines 64-73: the exercises indexes are created, the audio_processing
\* module is handed the pool and the client, up to the await of its
\* audio_initialize_repositories
LifespanInitializeExercises(ok) ==
    /\ app.pc = "initialize_exercises"
    /\ LET pool == get_pool(pg)
           client == get_client(mg)
           initialized == Done(app, "initialize_exercises")
       IN  app' = IF ~ok THEN startup_raise(app)
                  ELSE IF pool.raised THEN startup_raise(initialized)
                  ELSE IF client.raised
                  THEN startup_raise([initialized EXCEPT !.audio_pool = pool.value])
                  ELSE [Done(initialized, "configure_audio")
                           EXCEPT !.audio_pool = pool.value,
                                  !.audio_client = client.value,
                                  !.pc = "initialize_audio"]
    /\ UNCHANGED << progVars, audioVars, rt, uep, pg, mg, batchVars, ah, qc, rh >>

\* lines 73-88: the audio_features indexes are created; yield
LifespanInitializeAudio(ok) ==
    /\ app.pc = "initialize_audio"
    /\ app' = IF ok THEN [Done(app, "initialize_audio") EXCEPT !.pc = "serving"]
              ELSE startup_raise(app)
    /\ UNCHANGED << progVars, audioVars, rt, uep, pg, mg, batchVars, ah, qc, rh >>

\* a request dispatched to a handler of the audio_processing module, which
\* resolves get_postgres_pool or get_mongo_client
Serve(store) ==
    /\ app.pc = "serving"
    /\ app.served < MaxServed
    /\ LET got == IF store = "postgres" THEN dependency_get(app.audio_pool)
                  ELSE dependency_get(app.audio_client)
           m == IF store = "postgres" THEN pg ELSE mg
       IN  app' = [app EXCEPT
                      !.served = @ + 1,
                      !.answer = Some([store |-> store, raised |-> got.raised,
                                       live |-> /\ got.value # None
                                                /\ got.value[1] \in m.open])]
    /\ UNCHANGED << progVars, audioVars, rt, uep, pg, mg, batchVars, ah, qc, rh >>

\* lines 93-102: the shutdown half
LifespanShutdown ==
    /\ app.pc = "serving"
    /\ app' = [app EXCEPT !.pc = "stopped"]
    /\ pg' = [close_held(pg) EXCEPT !.call = "disconnect", !.got = None]
    /\ mg' = [close_held(mg) EXCEPT !.call = "disconnect", !.got = None]
    /\ UNCHANGED << progVars, audioVars, rt, uep, batchVars, ah, qc, rh >>

-----------------------------------------------------------------------------
(***************************************************************************)
(* The attempt history: AttemptRepositoryImpl.find_by_id / find_by_user /  *)
(* find_recent_by_user, GetUserAttemptsUseCase, GetAttemptByIdUseCase and  *)
(* AttemptController.  The table is a sequence in insertion order; row i   *)
(* has id i and attempted_at i, so newest-first is the reversed sequence.  *)
(***************************************************************************)
MaxRows == 2

\* find_by_user_id: find_by_user(user_id, limit=1000)
FindByUserIdLimit == 1000

\* get_user_attempts: limit=min(limit, 100)
MaxPageSize == 100

AttemptStatusValues == {"pending_analysis", "completed", "quality_rejected"}

HistoryExerciseIds == {1, 2}

RowStatuses == {"pending_analysis", "completed"}

RowChoices ==
    [user_id : Users, exercise_id : HistoryExerciseIds, status : RowStatuses]

HistoryRow(i, c) ==
    [id |-> i, user_id |-> c.user_id, exercise_id |-> c.exercise_id,
     status |-> c.status, attempted_at |-> i]

\* every table of at most MaxRows rows, and one user's table that is one row
\* longer than find_by_user_id reads
HistoryTables ==
    UNION {{[i \in 1..n |-> HistoryRow(i, c[i])] : c \in [1..n -> RowChoices]} :
              n \in 0..MaxRows}
    \cup {[i \in 1..(FindByUserIdLimit + 1) |->
              HistoryRow(i, [user_id |-> 1, exercise_id |-> 1,
                             status |-> "completed"])]}

Min(a, b) == IF a <= b THEN a ELSE b

Reverse(q) == [i \in 1..Len(q) |-> q[Len(q) + 1 - i]]

\* q[start:end] of Python, 0 <= start <= end
Slice(q, start, end) == SubSeq(q, start + 1, Min(end, Len(q)))

\* find_by_user: WHERE user_id [AND exercise_id] [AND status]
\*               ORDER BY attempted_at DESC LIMIT limit OFFSET offset
find_by_user(table, user_id, exercise_id, status, limit, offset) ==
    LET Matches(r) ==
            /\ r.user_id = user_id
            /\ exercise_id # None => r.exercise_id = exercise_id[1]
            /\ status # None => r.status = status[1]
    IN  Slice(SelectSeq(Reverse(table), Matches), offset, offset + limit)

find_by_user_id(table, user_id) ==
    find_by_user(table, user_id, None, None, FindByUserIdLimit, 0)

\* find_recent_by_user: WHERE user_id AND attempted_at >= now - days
\*                      ORDER BY attempted_at DESC
find_recent_by_user(table, user_id, days, now) ==
    LET Matches(r) == r.user_id = user_id /\ r.attempted_at >= now - days
    IN  SelectSeq(Reverse(table), Matches)

\* SELECT * FROM attempts WHERE id = $1
find_by_id(table, attempt_id) ==
    IF attempt_id \in 1..Len(table) THEN Some(table[attempt_id]) ELSE None

\* GetUserAttemptsUseCase._apply_filters
apply_filters(found, request) ==
    LET Matches(a) ==
            /\ request.exercise_id # None => a.exercise_id = request.exercise_id[1]
            /\ request.status # None => a.status = request.status[1]
    IN  SelectSeq(found, Matches)

\* GetUserAttemptsUseCase.execute; the sort leaves the newest-first list of
\* the repository as it is
get_user_attempts_execute(table, request, now) ==
    LET found == IF request.days # None
                 THEN find_recent_by_user(table, request.user_id, request.days[1], now)
                 ELSE find_by_user_id(table, request.user_id)
        filtered == apply_filters(found, request)
        total == Len(filtered)
        end == request.offset + request.limit
    IN  [attempts |-> Slice(filtered, request.offset, end),
         total |-> total, limit |-> request.limit, offset |-> request.offset,
         has_more |-> end < total]

Returned(data) ==
    [kind |-> "return", status_code |-> 200, detail |-> "", data |-> Some(data)]

HttpError(status_code, detail) ==
    [kind |-> "HTTPException", status_code |-> status_code, detail |-> detail,
     data |-> None]

\* an exception that is not an HTTPException leaves the controller method
Escaped(type) ==
    [kind |-> type, status_code |-> 500, detail |-> "Internal Server Error",
     data |-> None]

\* HTTPException(status_code=status.HTTP_..., detail=...): the attribute is
\* looked up on whatever the name status is bound to where the statement is;
\* only the fastapi module has it
http_exception(status_name, status_code, detail) ==
    IF status_name = "fastapi.status" THEN HttpError(status_code, detail)
    ELSE Escaped("AttributeError")

\* AttemptController.get_user_attempts; inside it the name status is the
\* parameter (a string or None), which hides the fastapi module
controller_get_user_attempts(table, user_id, exercise_id, status, days, limit, offset, now, ok) ==
    IF status # None /\ status[1] \notin AttemptStatusValues
    THEN \* except ValueError: raise HTTPException(400); then except Exception
         LET raised == http_exception(status, 400, "Estado invalido")
         IN  IF raised.kind = "HTTPException" THEN raised
             ELSE http_exception(status, 500, "Error al obtener intentos")
    ELSE IF ~ok
    THEN http_exception(status, 500, "Error al obtener intentos")
    ELSE Returned(get_user_attempts_execute(table,
             [user_id |-> user_id, exercise_id |-> exercise_id,
              status |-> status, days |-> days,
              limit |-> Min(limit, MaxPageSize), offset |-> offset], now))

\* GetAttemptByIdUseCase.execute
get_attempt_by_id_execute(table, attempt_id, user_id) ==
    LET attempt == find_by_id(table, attempt_id)
    IN  IF attempt = None
        THEN [raised |-> "ValueError", message |-> "no encontrado",
              attempt |-> None]
        ELSE IF attempt[1].user_id # user_id
        THEN [raised |-> "ValueError",
              message |-> "No tienes permiso para acceder a este intento",
              attempt |-> None]
        ELSE [raised |-> "", message |-> "", attempt |-> attempt]

\* AttemptController.get_attempt_by_id; here status is the fastapi module
controller_get_attempt_by_id(table, attempt_id, user_id, ok) ==
    IF ~ok THEN http_exception("fastapi.status", 500, "Error al obtener intento")
    ELSE LET result == get_attempt_by_id_execute(table, attempt_id, user_id)
         IN  IF result.raised = "ValueError"
             THEN http_exception("fastapi.status", 404, result.message)
             ELSE Returned(result.attempt[1])

NewHistory(table) ==
    [table |-> table,
     call |-> "",            \* history: the controller method called last
     request |-> None,       \* history: its arguments
     failure |-> "",         \* history: what went wrong in it, if anything
     response |-> None]      \* what left the controller method

LimitValues == {1, MaxPageSize}

\* the first offsets, and the offsets around what find_by_user_id reads
OffsetValues ==
    0..MaxRows \cup {FindByUserIdLimit - MaxPageSize, FindByUserIdLimit}

\* the far offsets are asked of a table that has such rows
OffsetsOf(table) ==
    {offset \in OffsetValues : offset > MaxRows => Len(table) > FindByUserIdLimit}

StatusParams == {None, Some("completed"), Some("pending_analysis"), Some("bogus")}

\* GET /attempts
GetUserAttempts(user_id, exercise_id, status, days, limit, offset, ok) ==
    /\ ah.call = ""
    /\ offset \in OffsetsOf(ah.table)
    /\ ah' = [ah EXCEPT
          !.call = "get_user_attempts",
          !.request = Some([user_id |-> user_id, exercise_id |-> exercise_id,
                            status |-> status, days |-> days, limit |-> limit,
                            offset |-> offset]),
          !.failure = IF status # None /\ status[1] \notin AttemptStatusValues
                      THEN "invalid status"
                      ELSE IF ~ok THEN "repository" ELSE "",
          !.response = Some(controller_get_user_attempts(ah.table, user_id,
                                exercise_id, status, days, limit, offset,
                                Len(ah.table), ok))]
    /\ UNCHANGED << progVars, audioVars, rt, uep, pg, mg, batchVars, app, qc, rh >>

\* GET /attempts/{attempt_id}
GetAttemptById(attempt_id, user_id, ok) ==
    /\ ah.call = ""
    /\ LET found == find_by_id(ah.table, attempt_id)
       IN  ah' = [ah EXCEPT
              !.call = "get_attempt_by_id",
              !.request = Some([attempt_id |-> attempt_id, user_id |-> user_id]),
              !.failure = IF ~ok THEN "repository"
                          ELSE IF found = None THEN "missing"
                          ELSE IF found[1].user_id # user_id THEN "not owned"
                          ELSE "",
              !.response = Some(controller_get_attempt_by_id(ah.table, attempt_id,
                                                            user_id, ok))]
    /\ UNCHANGED << progVars, audioVars, rt, uep, pg, mg, batchVars, app, qc, rh >>

-----------------------------------------------------------------------------
(***************************************************************************)
(* AudioValidator and QualityCheck.  Floats are scaled to integers:        *)
(* durations in tenths of a second, levels in thousandths, scores in       *)
(* tenths of a point; a float is a number or NaN, and every comparison     *)
(* with NaN is false.                                                      *)
(***************************************************************************)
Num(v) == [nan |-> FALSE, v |-> v]

NaN == [nan |-> TRUE, v |-> 0]

Lt(x, c) == ~x.nan /\ x.v < c

Gt(x, c) == ~x.nan /\ x.v > c

Ge(x, c) == ~x.nan /\ x.v >= c

\* durations around min_duration 0.3 s and max_duration 10.0 s
DurationValues == {Num(2), Num(3), Num(100), Num(101), NaN}

\* SNR in dB around 10, 15, 20 and 25; -1 stands for every low value
\* down to -inf, the SNR of an all-zero signal
SnrValues ==
    {Num(-1), Num(9), Num(10), Num(14), Num(15), Num(19), Num(20), Num(25),
     Num(26), NaN}

\* RMS levels around 0.01, 0.05, 0.1 and 0.8
VolumeValues ==
    {Num(0), Num(9), Num(10), Num(49), Num(50), Num(100), Num(101), Num(799),
     Num(800), NaN}

Max(a, b) == IF a >= b THEN a ELSE b

\* _calculate_quality_score up to its last line: 10.0, the penalties, the bonuses
raw_quality_score(duration, snr_db, has_clipping, volume_level, is_silent) ==
    100
    - (IF Lt(duration, 3) THEN 50 ELSE IF Gt(duration, 100) THEN 30 ELSE 0)
    - (IF Lt(snr_db, 10) THEN 40 ELSE IF Lt(snr_db, 15) THEN 20
       ELSE IF Lt(snr_db, 20) THEN 10 ELSE 0)
    - (IF has_clipping THEN 30 ELSE 0)
    - (IF Lt(volume_level, 10) THEN 40 ELSE IF Lt(volume_level, 50) THEN 20 ELSE 0)
    - (IF is_silent THEN 50 ELSE 0)
    + (IF Gt(snr_db, 25) THEN 5 ELSE 0)
    + (IF Gt(volume_level, 100) /\ Lt(volume_level, 800) THEN 5 ELSE 0)

clamp_upper_only(score) == Min(100, score)

\* line 269: max(0.0, min(10.0, score))
clamp(score) == Max(0, Min(100, score))

calculate_quality_score(duration, snr_db, has_clipping, volume_level, is_silent) ==
    clamp(raw_quality_score(duration, snr_db, has_clipping, volume_level, is_silent))

\* _detect_silence: rms < 0.01, on the RMS that _calculate_volume returns
detect_silence(volume_level) == Lt(volume_level, 10)

\* QualityCheck.__post_init__: ValueError unless 0 <= quality_score <= 10
quality_check_raises(quality_score) == ~(0 <= quality_score /\ quality_score <= 100)

\* validate, lines 53-85: the issues in the order they are appended
issues_of(duration, snr_db, has_clipping, volume_level, is_silent) ==
    (IF Lt(duration, 3) THEN << "audio_too_short" >>
     ELSE IF Gt(duration, 100) THEN << "audio_too_long" >> ELSE << >>)
    \o (IF Lt(snr_db, 10) THEN << "low_snr" >> ELSE << >>)
    \o (IF has_clipping THEN << "clipping_detected" >> ELSE << >>)
    \o (IF is_silent THEN << "silence_detected" >> ELSE << >>)
    \o (IF Lt(volume_level, 10) THEN << "low_volume" >> ELSE << >>)

rejection_reason_of_noise_first(is_valid, issues) ==
    LET Has(issue) == \E k \in 1..Len(issues) : issues[k] = issue
    IN  IF is_valid THEN ""
        ELSE IF Has("low_snr") THEN "Demasiado ruido de fondo"
        ELSE IF Has("audio_too_short") THEN "El audio es muy corto"
        ELSE IF Has("audio_too_long") THEN "El audio es muy largo"
        ELSE IF Has("clipping_detected") THEN "Audio saturado"
        ELSE IF Has("silence_detected") THEN "No se detecto voz"
        ELSE IF Has("low_volume") THEN "Volumen muy bajo"
        ELSE "La calidad del audio no es aceptable"

\* validate, lines 106-122: the first issue in the order of the elif chain
rejection_reason_of(is_valid, issues) ==
    LET Has(issue) == \E k \in 1..Len(issues) : issues[k] = issue
    IN  IF is_valid THEN ""
        ELSE IF Has("audio_too_short") THEN "El audio es muy corto"
        ELSE IF Has("audio_too_long") THEN "El audio es muy largo"
        ELSE IF Has("low_snr") THEN "Demasiado ruido de fondo"
        ELSE IF Has("clipping_detected") THEN "Audio saturado"
        ELSE IF Has("silence_detected") THEN "No se detecto voz"
        ELSE IF Has("low_volume") THEN "Volumen muy bajo"
        ELSE "La calidad del audio no es aceptable"

\* AudioValidator.validate from the measurements on
audio_validate(duration, snr_db, has_clipping, volume_level) ==
    LET is_silent == detect_silence(volume_level)
        issues == issues_of(duration, snr_db, has_clipping, volume_level, is_silent)
        has_background_noise == Lt(snr_db, 15)
        quality_score == calculate_quality_score(duration, snr_db, has_clipping,
                                                 volume_level, is_silent)
        is_valid == Len(issues) = 0 /\ quality_score >= 60
    IN  IF quality_check_raises(quality_score)
        THEN [raised |-> "ValueError", check |-> None]
        ELSE [raised |-> "",
              check |-> Some([is_valid |-> is_valid,
                              quality_score |-> quality_score,
                              snr_db |-> snr_db, issues |-> issues,
                              warns |-> has_background_noise /\ Ge(snr_db, 10),
                              rejection_reason |-> rejection_reason_of(is_valid, issues),
                              has_clipping |-> has_clipping,
                              has_background_noise |-> has_background_noise,
                              duration_seconds |-> duration,
                              volume_level |-> volume_level])]

Measured(duration, snr_db, has_clipping, volume_level, is_silent) ==
    [pc |-> "measured", duration |-> duration, snr_db |-> snr_db,
     has_clipping |-> has_clipping, volume_level |-> volume_level,
     is_silent |-> is_silent,
     raw |-> None,            \* history: the score before the last line
     quality_score |-> None,  \* what _calculate_quality_score returned
     raised |-> "",
     check |-> None]          \* the QualityCheck validate returned

\* _calculate_quality_score on its five arguments
CalculateQualityScore ==
    /\ qc.pc = "measured"
    /\ qc' = [qc EXCEPT
          !.pc = "scored",
          !.raw = Some(raw_quality_score(qc.duration, qc.snr_db, qc.has_clipping,
                                         qc.volume_level, qc.is_silent)),
          !.quality_score = Some(calculate_quality_score(qc.duration, qc.snr_db,
                                     qc.has_clipping, qc.volume_level, qc.is_silent))]
    /\ UNCHANGED << progVars, audioVars, rt, uep, pg, mg, batchVars, app, ah, rh >>

\* validate; the silence finding is the one it derives from the level
Validate ==
    /\ qc.pc = "measured"
    /\ qc.is_silent = detect_silence(qc.volume_level)
    /\ LET done == audio_validate(qc.duration, qc.snr_db, qc.has_clipping, qc.volume_level)
       IN  qc' = [qc EXCEPT
              !.pc = "validated",
              !.raw = Some(raw_quality_score(qc.duration, qc.snr_db, qc.has_clipping,
                                             qc.volume_level, qc.is_silent)),
              !.quality_score = IF done.check = None THEN None
                                ELSE Some(done.check[1].quality_score),
              !.raised = done.raised,
              !.check = done.check]
    /\ UNCHANGED << progVars, audioVars, rt, uep, pg, mg, batchVars, app, ah, rh >>

-----------------------------------------------------------------------------
(***************************************************************************)
(* RhythmAnalyzer: pause detection over the RMS frames of a signal.  Times *)
(* are counted in samples, so that librosa.frames_to_time(i) is            *)
(* i * hop_length and a duration d (samples) is d / sample_rate seconds.   *)
(* ref=np.max puts the loudest frame at 0 dB: at least one frame of every  *)
(* signal is not silent.                                                   *)
(***************************************************************************)
\* number of RMS frames of the longest signal analysed
MaxFrames == 7

\* RhythmAnalyzer.__init__ defaults and the sample rate of the loader
hop_length == 512

min_pause_duration == 15

sample_rate == 16000

\* is_silent = rms_db < silence_threshold, one boolean per frame
FrameSequences ==
    {f \in UNION {[1..n -> BOOLEAN] : n \in 1..MaxFrames} :
        \E i \in DOMAIN f : ~f[i]}

\* len(y) of a signal with n frames (centered framing: n = 1 + len(y) // hop)
SampleCounts(n) == {(n - 1) * hop_length, n * hop_length - 1}

\* librosa.frames_to_time of the frame with (0-based) index i, in samples
frames_to_time(i) == i * hop_length

\* pause_duration >= self.min_pause_duration (hundredths of a second)
reaches_min_pause(pause_duration) ==
    pause_duration * 100 >= min_pause_duration * sample_rate

\* times[-1]
last_frame_time(is_silent) == frames_to_time(Len(is_silent) - 1)

RECURSIVE detect_pauses_loop(_, _, _, _, _)
\* the for loop of _detect_pauses over enumerate(is_silent); i is 1-based
detect_pauses_loop(is_silent, i, in_pause, pause_start, pauses) ==
    IF i > Len(is_silent)
    THEN [in_pause |-> in_pause, pause_start |-> pause_start, pauses |-> pauses]
    ELSE IF is_silent[i] /\ ~in_pause
    THEN detect_pauses_loop(is_silent, i + 1, TRUE, frames_to_time(i - 1), pauses)
    ELSE IF ~is_silent[i] /\ in_pause
    THEN LET pause_end == frames_to_time(i - 1)
         IN  detect_pauses_loop(is_silent, i + 1, FALSE, pause_start,
                 IF reaches_min_pause(pause_end - pause_start)
                 THEN Append(pauses, << pause_start, pause_end >>)
                 ELSE pauses)
    ELSE detect_pauses_loop(is_silent, i + 1, in_pause, pause_start, pauses)

\* _detect_pauses from the silent flags on: the loop, then the open pause
detect_pauses(is_silent) ==
    LET after == detect_pauses_loop(is_silent, 1, FALSE, 0, << >>)
        pause_end == last_frame_time(is_silent)
    IN  IF after.in_pause /\ reaches_min_pause(pause_end - after.pause_start)
        THEN Append(after.pauses, << after.pause_start, pause_end >>)
        ELSE after.pauses

RECURSIVE between_pauses(_, _)
\* the for loop of _get_speech_segments from index i (1-based) on
between_pauses(pauses, i) ==
    IF i >= Len(pauses)
    THEN << >>
    ELSE (IF pauses[i + 1][1] > pauses[i][2]
          THEN << << pauses[i][2], pauses[i + 1][1] >> >>
          ELSE << >>) \o between_pauses(pauses, i + 1)

\* _get_speech_segments
get_speech_segments(pauses, total_duration) ==
    IF Len(pauses) = 0
    THEN << << 0, total_duration >> >>
    ELSE (IF pauses[1][1] > 0 THEN << << 0, pauses[1][1] >> >> ELSE << >>)
         \o between_pauses(pauses, 1)
         \o (IF pauses[Len(pauses)][2] < total_duration
             THEN << << pauses[Len(pauses)][2], total_duration >> >>
             ELSE << >>)

\* a signal handed to extract: its silent flags and its length in samples
NewAnalysis(is_silent, samples) ==
    [pc |-> "new", is_silent |-> is_silent, samples |-> samples,
     pauses |-> << >>, speech_segments |-> << >>]

\* RhythmAnalyzer.extract as far as pauses and speech segments go
Extract ==
    /\ rh.pc = "new"
    /\ LET pauses == detect_pauses(rh.is_silent)
       IN  rh' = [rh EXCEPT !.pc = "done",
                            !.pauses = pauses,
                            !.speech_segments = get_speech_segments(pauses, rh.samples)]
    /\ UNCHANGED << progVars, audioVars, rt, uep, pg, mg, batchVars, app, ah, qc >>

-----------------------------------------------------------------------------
(***************************************************************************)
(* POST /audio/process as far as the progress rows go: the access gate,    *)
(* then (after the awaits of the audio pipeline) record_attempt for a      *)
(* score that is neither None nor 0.  Each request is served by a          *)
(* coroutine of its own; the coroutines interleave at their awaits.        *)
(***************************************************************************)
\* the calls admitted and not yet inside record_attempt
admitted_calls == Cardinality({p \in Workers : ra[p].pc = "admitted"})

\* routes lines 176-183: `if not has_access: raise HTTPException(403)`
attempt_gate(p, u, e, s) ==
    /\ ra[p].pc \in {"idle", "returned", "raised", "forbidden"}
    /\ clock + admitted_calls < MaxAttempts
    /\ s # 0
    /\ LET base == [IdleFrame EXCEPT !.user_id = u, !.exercise_id = e,
                                     !.overall_score = s]
       IN  IF Truthy(can_access_exercise(u, e))
           THEN ra' = [ra EXCEPT ![p] = [base EXCEPT !.pc = "admitted"]]
           ELSE ra' = [ra EXCEPT ![p] = [base EXCEPT !.pc = "forbidden",
                                                     !.error = "HTTP 403"]]
    /\ UNCHANGED << active, progress, clock, audioVars, rt, otherVars >>

\* routes lines 202-207 entering record_attempt, service lines 179-198
attempt_record(p) ==
    /\ ra[p].pc = "admitted"
    /\ clock' = clock + 1
    /\ LET f == ra[p]
           found == get_by_user_and_exercise(f.user_id, f.exercise_id)
       IN  IF found = None
           THEN ra' = [ra EXCEPT ![p].pc = "raised", ![p].error = "NameError"]
           ELSE ra' = [ra EXCEPT
                    ![p].pc = "save",
                    ![p].before = found,
                    ![p].was_completed_before = is_completed(found[1]),
                    ![p].progress = Some(update_from_attempt(found[1],
                                                             f.overall_score, clock'))]
    /\ UNCHANGED << active, progress, audioVars, rt, otherVars >>

\* POST /audio/process (the gate, then record_attempt) as one user sends it
\* who has initialized their rows and submits a passing attempt on the
\* lowest-ordinal active exercise they have not completed
submit_lowest_uncompleted(p, u, s) ==
    LET todo == {x \in active : get_by_user_and_exercise(u, x) = None
                                \/ ~is_completed(get_by_user_and_exercise(u, x)[1])}
    IN  /\ s >= 70
        /\ \A x \in active : <<u, x>> \in DOMAIN progress
        /\ ra[p].pc = "idle" \/ ra[p].user_id = u
        /\ \E e \in todo :
               /\ \A x \in todo : order_index(e) <= order_index(x)
               /\ attempt_gate(p, u, e, s)

-----------------------------------------------------------------------------
(***************************************************************************)
(* Initial state and the specifications.                                   *)
(***************************************************************************)
EmptyTable == [k \in {} |-> InitialRow(1)]

InitProgression ==
    /\ active \in SUBSET ExerciseIds
    /\ progress = EmptyTable
    /\ clock = 0
    /\ ra = [p \in Workers |-> IdleFrame]

InitAudio ==
    /\ attempts = [k \in {} |-> RowOf(NewAttempt("pending_analysis"))]
    /\ features = {}
    /\ pa = IdleCall

InitRoute == rt = IdleRequest

InitObject == uep = NewObject(InitialRow(1))

InitManagers == pg = NewManager /\ mg = NewManager

InitBatch == cache = EmptyCache /\ bt = NewRun

InitService ==
    /\ app = NewApp
    /\ rh = NewAnalysis(<< FALSE >>, 0)
    /\ ah = NewHistory(<< >>)
    /\ qc = Measured(Num(3), Num(20), FALSE, Num(100), FALSE)

Init ==
    /\ InitProgression /\ InitAudio /\ InitRoute /\ InitObject /\ InitManagers
    /\ InitBatch /\ InitService

RecordAttemptStep ==
    \E p \in Procs :
        \/ \E u \in Users, e \in ExerciseIds, s \in ScoreValues :
               record_attempt_load(p, u, e, s)
        \/ record_attempt_save(p)
        \/ record_attempt_get_exercise(p)
        \/ record_attempt_get_next(p)
        \/ record_attempt_unlock(p)

NextProgression ==
    \/ RecordAttemptStep
    \/ \E u \in Users : InitializeProgress(u)

SpecProgression == Init /\ [][NextProgression]_vars

ProcessAudioStep ==
    \/ \E audio \in Audios : process_audio_complete_call(audio)
    \/ pa_load
    \/ pa_validate
    \/ pa_save_rejected
    \/ pa_normalize
    \/ pa_extract
    \/ pa_save_attempt
    \/ pa_save_features
    \/ pa_save_pointer
    \/ \E response \in MlResponses : pa_call_ml(response)
    \/ pa_save_completed
    \/ pa_return

\* the service on its own
SpecAudio == Init /\ [][ProcessAudioStep]_vars

\* the service on a store that can fail the last save of a call
NextAudioStoreFails ==
    \/ ProcessAudioStep
    \/ pa_save_completed_raises

SpecAudioStoreFails == Init /\ [][NextAudioStoreFails]_vars

\* the attempts table under every writer the repository offers
NextAttemptStore ==
    \/ ProcessAudioStep
    \/ \E id \in DOMAIN attempts, v \in MlScoreValues : UpdateScores(id, v)

SpecAttemptStore == Init /\ [][NextAttemptStore]_vars

ProcessAudioRouteStep ==
    \/ \E u \in Users, x \in RequestedIds, audio \in RouteAudios :
           process_audio_request(u, x, audio)
    \/ process_audio_lookup
    \/ process_audio_gate
    \/ process_audio_controller

\* the HTTP surface: /audio/process and /exercises/initialize-progress;
\* record_attempt has no caller but step 5 of the route
NextRoute ==
    \/ ProcessAudioRouteStep
    \/ \E u \in Users : InitializeProgress(u)

SpecRoute == Init /\ [][NextRoute]_vars

\* a seeded row, available or locked, and the attempts made on it
InitSeeded ==
    /\ InitProgression /\ InitAudio /\ InitRoute /\ InitManagers /\ InitBatch
    /\ InitService
    /\ uep \in {NewObject(InitialRow(e)) : e \in ExerciseIds}

NextObject == \E s \in AttemptScores : UpdateFromAttempt(s)

SpecObject == InitSeeded /\ [][NextObject]_vars

\* the calls made on the two managers by the process that owns them
NextManagers ==
    \/ PostgresConnectClose
    \/ \E ok \in BOOLEAN : PostgresConnectCreate(ok)
    \/ PostgresDisconnect
    \/ PostgresGetPool
    \/ MongoConnect
    \/ MongoDisconnect
    \/ MongoGetClient

SpecManagers == Init /\ [][NextManagers]_vars

\* runs of the batch tool, one after the other, each step succeeding or raising
NextBatch ==
    \/ \E force_recompute \in BOOLEAN : BatchRun(force_recompute)
    \/ BatchFetch
    \/ \E ok \in BOOLEAN : BatchCheck(ok)
    \/ \E ok \in BOOLEAN : BatchDownload(ok)
    \/ \E ok \in BOOLEAN : BatchCalculate(ok)
    \/ \E ok \in BOOLEAN : BatchSave(ok)
    \/ BatchFinish

SpecBatch == Init /\ [][NextBatch]_vars

\* one process of the application, from startup to shutdown
NextLifespan ==
    \/ \E ok \in BOOLEAN : LifespanPostgresConnect(ok)
    \/ \E ok \in BOOLEAN : LifespanMongoConnect(ok)
    \/ \E ok \in BOOLEAN : LifespanInitializeExercises(ok)
    \/ \E ok \in BOOLEAN : LifespanInitializeAudio(ok)
    \/ \E store \in {"postgres", "mongo"} : Serve(store)
    \/ LifespanShutdown

SpecLifespan == Init /\ [][NextLifespan]_vars

\* the attempts table as the history handlers find it
InitHistory ==
    /\ InitProgression /\ active = ExerciseIds
    /\ InitAudio /\ InitRoute /\ InitObject /\ InitManagers /\ InitBatch
    /\ app = NewApp
    /\ rh = NewAnalysis(<< FALSE >>, 0)
    /\ qc = Measured(Num(3), Num(20), FALSE, Num(100), FALSE)
    /\ ah \in {NewHistory(table) : table \in HistoryTables}

\* one request to one of the two attempt-history endpoints
NextHistory ==
    \/ \E user_id \in Users, exercise_id \in {None} \cup {Some(e) : e \in HistoryExerciseIds},
          status \in StatusParams, days \in {None, Some(1)},
          limit \in LimitValues, offset \in OffsetValues, ok \in BOOLEAN :
          GetUserAttempts(user_id, exercise_id, status, days, limit, offset, ok)
    \/ \E attempt_id \in 1..(MaxRows + 1), user_id \in Users, ok \in BOOLEAN :
          GetAttemptById(attempt_id, user_id, ok)

SpecHistory == InitHistory /\ [][NextHistory]_vars

\* every combination of the five findings
InitQuality ==
    /\ InitProgression /\ active = ExerciseIds
    /\ InitAudio /\ InitRoute /\ InitObject /\ InitManagers /\ InitBatch
    /\ app = NewApp
    /\ rh = NewAnalysis(<< FALSE >>, 0)
    /\ ah = NewHistory(<< >>)
    /\ qc \in {Measured(duration, snr_db, has_clipping, volume_level, is_silent) :
                 duration \in DurationValues, snr_db \in SnrValues,
                 has_clipping \in BOOLEAN, volume_level \in VolumeValues,
                 is_silent \in BOOLEAN}

NextQuality == CalculateQualityScore \/ Validate

SpecQuality == InitQuality /\ [][NextQuality]_vars

\* every signal of at most MaxFrames frames, analysed once
InitRhythm ==
    /\ InitProgression /\ active = ExerciseIds
    /\ InitAudio /\ InitRoute /\ InitObject /\ InitManagers /\ InitBatch
    /\ app = NewApp
    /\ ah = NewHistory(<< >>)
    /\ qc = Measured(Num(3), Num(20), FALSE, Num(100), FALSE)
    /\ rh \in {NewAnalysis(is_silent, samples) :
                 is_silent \in FrameSequences,
                 samples \in UNION {SampleCounts(n) : n \in 1..MaxFrames}}
    /\ rh.samples \in SampleCounts(Len(rh.is_silent))

NextRhythm == Extract

SpecRhythm == InitRhythm /\ [][NextRhythm]_vars

\* every exercise active; the requests of the workers interleave step by step
InitConcurrent == Init /\ active = ExerciseIds

ConcurrentAttemptStep ==
    \E p \in Workers :
        \/ \E u \in Users, e \in ExerciseIds, s \in ScoreValues :
               attempt_gate(p, u, e, s)
        \/ attempt_record(p)
        \/ record_attempt_save(p)
        \/ record_attempt_get_exercise(p)
        \/ record_attempt_get_next(p)
        \/ record_attempt_unlock(p)

NextConcurrent ==
    \/ ConcurrentAttemptStep
    \/ \E u \in Users : InitializeProgress(u)

SpecConcurrent == InitConcurrent /\ [][NextConcurrent]_vars

\* a user working through the path, one request at a time
PersistentUserStep ==
    \E p \in Procs :
        \/ \E u \in Users, s \in ScoreValues : submit_lowest_uncompleted(p, u, s)
        \/ attempt_record(p)
        \/ record_attempt_save(p)
        \/ record_attempt_get_exercise(p)
        \/ record_attempt_get_next(p)
        \/ record_attempt_unlock(p)

NextPersistentUser ==
    \/ PersistentUserStep
    \/ \E u \in Users : InitializeProgress(u)

\* the user keeps submitting and every request is served to its end
SpecPersistentUser ==
    Init /\ [][NextPersistentUser]_vars /\ WF_vars(NextPersistentUser)

-----------------------------------------------------------------------------
(***************************************************************************)
(* Properties of the progression module (SpecProgression).                 *)
(***************************************************************************)
HasCompletedRow(u, e) ==
    /\ <<u, e>> \in DOMAIN progress
    /\ progress[<<u, e>>].status \in {"completed", "mastered"}

Fresh(u) ==
    \A e \in ExerciseIds :
        <<u, e>> \in DOMAIN progress => progress[<<u, e>>].attempts_count = 0

\* C2: a fresh user can access the exercise with order_index 1 and not the one
\* with order_index 2; once record_attempt on exercise n with a score >= 70 has
\* returned, can_access_exercise for the exercise with order_index n+1 is true.
C2_FreshThenUnlock ==
    /\ \A u \in Users, e \in active :
           Fresh(u) =>
               /\ order_index(e) = 1 => Truthy(can_access_exercise(u, e))
               /\ order_index(e) = 2 => ~Truthy(can_access_exercise(u, e))
    /\ \A p \in Procs, e \in active :
           /\ ra[p].pc = "returned"
           /\ ra[p].overall_score >= 70
           /\ order_index(e) = order_index(ra[p].exercise_id) + 1
           => Truthy(can_access_exercise(ra[p].user_id, e))

C2_Witness ==
    \E p \in Procs, e \in active :
        /\ ra[p].pc = "returned"
        /\ ra[p].overall_score >= 70
        /\ ra[p].before[1].attempts_count = 0
        /\ order_index(e) = order_index(ra[p].exercise_id) + 1
        /\ Truthy(can_access_exercise(ra[p].user_id, e))

\* C3: record_attempt unlocks the next ordinal's exercise and returns
\* unlocked_next = true, naming that exercise, exactly when a next ordinal
\* exists and the row is completed/mastered after the update and was not
\* before it; a further passing attempt on an already completed/mastered
\* exercise returns unlocked_next = false and writes no other row.
C3_UnlockOnFirstCompletion ==
    \A p \in Procs :
        ra[p].pc = "returned" =>
            LET f == ra[p]
                res == f.result[1]
                n == order_index(f.exercise_id)
                nextExists == \E e \in active : order_index(e) = n + 1
                doneBefore == f.before[1].status \in {"completed", "mastered"}
                doneAfter == f.progress[1].status \in {"completed", "mastered"}
            IN  /\ res.unlocked_next <=> (nextExists /\ doneAfter /\ ~doneBefore)
                /\ res.unlocked_next =>
                       /\ res.next_exercise = Some(n + 1)
                       /\ \A e \in active :
                              order_index(e) = n + 1 /\ <<f.user_id, e>> \in DOMAIN progress
                              => progress[<<f.user_id, e>>].status # "locked"
                /\ ~res.unlocked_next =>
                       /\ res.next_exercise = None
                       /\ f.touched \subseteq {<<f.user_id, f.exercise_id>>}

C3_Witness ==
    \E p \in Procs :
        /\ ra[p].pc = "returned"
        /\ ra[p].result[1].unlocked_next
        /\ <<ra[p].user_id, ra[p].exercise_id + 1>> \in ra[p].touched
        /\ progress[<<ra[p].user_id, ra[p].exercise_id + 1>>].status = "available"

C3_WitnessRepeat ==
    \E p \in Procs :
        /\ ra[p].pc = "returned"
        /\ ra[p].overall_score >= 70
        /\ ra[p].was_completed_before
        /\ ~ra[p].result[1].unlocked_next

-----------------------------------------------------------------------------
(***************************************************************************)
(* Properties of the attempt pipeline (SpecAudio, SpecAttemptStore).       *)
(***************************************************************************)
RowScores(row) ==
    [k \in ScoreKeys |->
        IF k = "pronunciation" THEN row.pronunciation_score
        ELSE IF k = "fluency" THEN row.fluency_score
        ELSE IF k = "rhythm" THEN row.rhythm_score
        ELSE row.overall_score]

NoScores == [k \in ScoreKeys |-> None]

\* the row of the attempt the current call is processing
CurrentRow == attempts[pa.attempt[1].id[1]]

\* C6: in every state of the attempt store, a row with any of its four scores
\* non-null has status completed; no pending_analysis or quality_rejected row
\* carries a score.
C6_ScoresOnlyWhenCompleted ==
    \A id \in DOMAIN attempts :
        RowScores(attempts[id]) # NoScores => attempts[id].status = "completed"

C6_Witness ==
    \E a, b \in DOMAIN attempts :
        /\ attempts[a].status = "completed" /\ attempts[a].overall_score # None
        /\ attempts[b].status \in {"quality_rejected", "pending_analysis"}
        /\ RowScores(attempts[b]) = NoScores

\* a 200 body whose scores object holds none of the four scores
ScoreLess(response) == response.kind = "scores" /\ response.scores = NoScores

\* the failure modes of the scoring call: it raised (transport error, timeout,
\* non-200, unparsable body), or its body carries no scores
ScoringFailed(response) ==
    \/ response.kind \in RaisingKinds \cup MalformedKinds
    \/ ScoreLess(response)

\* C7: for valid audio and every failure mode of the scoring call (transport
\* error, timeout, non-200, unparsable or score-less body), the call raises
\* nothing, returns status pending_analysis with four null scores, and the
\* persisted attempt stays pending_analysis with null scores.
C7_ScoringFailureLeavesPending ==
    (pa.ml # None /\ ScoringFailed(pa.ml[1])) =>
        /\ pa.pc \in {"return", "returned"}
        /\ CurrentRow.status = "pending_analysis"
        /\ RowScores(CurrentRow) = NoScores
        /\ pa.pc = "returned" =>
               /\ pa.result[1].status = "pending_analysis"
               /\ pa.result[1].scores = NoScores
               /\ pa.result[1].analyzed_at = None

AllFour(scores) == \A k \in ScoreKeys : scores[k] # None

\* the scoring service answered 200 (whatever the body)
Responded200(response) ==
    response.kind \notin {"transport_error", "timeout", "non_200"}

\* the outcome C8 describes, for the call that has just returned
CompletedWithScores ==
    /\ CurrentRow.status = "completed"
    /\ AllFour(RowScores(CurrentRow))
    /\ CurrentRow.analyzed_at # None
    /\ pa.result[1].status = CurrentRow.status
    /\ pa.result[1].scores = RowScores(CurrentRow)

\* C8 as stated: for valid audio and a scoring service that responds with 200,
\* the attempt ends persisted as completed with all four scores non-null and
\* analyzed_at set, and the result carries the same status and scores.
C8_Any200Completes ==
    (pa.pc = "returned" /\ pa.ml # None /\ Responded200(pa.ml[1]))
        => CompletedWithScores

\* C8 as amended: the same, for a 200 response whose JSON body has a scores
\* object holding all four scores; the persisted scores are the body's.
C8_WellFormed200Completes ==
    (pa.pc = "returned" /\ pa.ml # None /\ pa.ml[1].kind = "scores"
                        /\ AllFour(pa.ml[1].scores))
        => /\ CompletedWithScores
           /\ RowScores(CurrentRow) = pa.ml[1].scores

C8_Witness ==
    /\ pa.pc = "returned"
    /\ pa.ml # None
    /\ pa.ml[1].kind = "scores"
    /\ AllFour(pa.ml[1].scores)
    /\ CurrentRow.status = "completed"
    /\ pa.result[1].scores = pa.ml[1].scores

Rank(step) ==
    IF step = "load" THEN 1
    ELSE IF step = "validate" THEN 2
    ELSE IF step = "normalize" THEN 3
    ELSE IF step = "extract" THEN 4
    ELSE IF step \in {"save_attempt", "save_rejected"} THEN 5
    ELSE IF step = "save_features" THEN 6
    ELSE IF step = "save_pointer" THEN 7
    ELSE IF step = "call_ml" THEN 8
    ELSE 9

Logged(step) == \E i \in 1..Len(pa.log) : pa.log[i] = step

\* C10: within one attempt's processing the steps happen strictly in the order
\* load, validate, normalize, extract, persist attempt, persist features, call
\* scorer, update attempt; the scorer is never called before the attempt row
\* and its feature document are persisted, and the row is never written as
\* completed before the scorer has responded.
C10_StepOrder ==
    /\ \A i, j \in 1..Len(pa.log) : i < j => Rank(pa.log[i]) < Rank(pa.log[j])
    /\ Logged("call_ml") =>
           /\ pa.attempt[1].id # None
           /\ pa.attempt[1].id[1] \in DOMAIN attempts
           /\ pa.attempt[1].id \in features
    /\ (pa.attempt # None /\ pa.attempt[1].id # None /\ ~Logged("call_ml"))
           => CurrentRow.status # "completed"

C10_Witness ==
    /\ pa.log = << "load", "validate", "normalize", "extract", "save_attempt",
                   "save_features", "save_pointer", "call_ml", "save_completed" >>
    /\ CurrentRow.status = "completed"

-----------------------------------------------------------------------------
(***************************************************************************)
(* Properties of POST /audio/process (SpecRoute).                          *)
(***************************************************************************)
PastGateDone == rt.pc = "done" /\ rt.past_gate

Rejected(audio) == ~validate(audio).is_valid

\* C4: for every request that gets past the access gate, record_attempt is
\* applied exactly once with the returned overall score whenever that score is
\* non-null, and whenever no score was produced no call is made and the
\* response carries progression.progress_updated = false.
C4_ProgressionAfterGate ==
    PastGateDone =>
        /\ rt.overall_score # None => rt.recorded = 1
        /\ rt.overall_score = None =>
               /\ rt.recorded = 0
               /\ rt.progression # None
               /\ rt.progression[1].progress_updated = FALSE

Answers404 == (rt.pc = "done" /\ rt.exercise = None) => rt.status_code = Some(404)

Answers403 ==
    (rt.pc = "done" /\ rt.exercise # None /\ ~rt.past_gate)
        => rt.status_code = Some(403)

Answers400 == (PastGateDone /\ Rejected(rt.audio)) => rt.status_code = Some(400)

\* C5: the endpoint answers 404 for an exercise_id that matches no exercise,
\* 403 for an exercise that is locked for the caller whatever the audio, and
\* 400 for audio that fails quality validation.
C5_StatusCodes == Answers404 /\ Answers403 /\ Answers400

\* C9: whenever submitted audio fails validation, exactly one quality_rejected
\* attempt row without scores is persisted, and the caller receives a 400
\* whose message is the validator's rejection reason.
C9_RejectedThen400 ==
    (PastGateDone /\ Rejected(rt.audio)) =>
        /\ Cardinality({id \in DOMAIN attempts \ rt.rows_before :
                            /\ attempts[id].status = "quality_rejected"
                            /\ RowScores(attempts[id]) = NoScores}) = 1
        /\ rt.status_code = Some(400)
        /\ rt.detail = validate(rt.audio).rejection_reason

-----------------------------------------------------------------------------
(***************************************************************************)
(* Properties of AttemptRepositoryImpl.save (SpecAudio).                   *)
(***************************************************************************)
\* the attempt object names a stored row
Stored(att, table) == att.id # None /\ att.id[1] \in DOMAIN table

\* one save of the call's attempt object: the row named by the object's id
\* when save returns holds the object's columns, every other row is as it was;
\* an object that named a row keeps its id and no row is created, any other
\* object gets the id of the one row created
SaveStep ==
    LET before == pa.attempt[1]
        after == pa'.attempt[1]
        id == after.id[1]
    IN  /\ after.id # None
        /\ DOMAIN attempts' = DOMAIN attempts \cup {id}
        /\ attempts'[id] = RowOf(after)
        /\ \A k \in DOMAIN attempts \ {id} : attempts'[k] = attempts[k]
        /\ IF Stored(before, attempts)
           THEN after.id = before.id /\ DOMAIN attempts' = DOMAIN attempts
           ELSE id \notin DOMAIN attempts

\* the rows created since the call began
RowsOfCall == DOMAIN attempts \ pa.rows_before

Saved == \E i \in 1..Len(pa.log) :
             pa.log[i] \in {"save_attempt", "save_rejected", "save_pointer",
                            "save_completed"}

\* C11: save updates exactly the row the attempt's identifier names and
\* creates none, or else inserts exactly one row whose store-assigned id the
\* in-memory attempt carries when save returns; any sequence of saves on one
\* attempt object leaves exactly one row for it.
C11_SaveOneRow ==
    /\ [][attempts' # attempts => SaveStep]_vars
    /\ [](Saved => /\ Stored(pa.attempt[1], attempts)
                   /\ RowsOfCall = {pa.attempt[1].id[1]})
    /\ [](~Saved => RowsOfCall = {})

C11_Witness ==
    /\ pa.log = << "load", "validate", "normalize", "extract", "save_attempt",
                   "save_features", "save_pointer", "call_ml", "save_completed" >>
    /\ pa.rows_before # {}
    /\ RowsOfCall = {pa.attempt[1].id[1]}


-----------------------------------------------------------------------------
(***************************************************************************)
(* Properties of one progress object (SpecObject).                         *)
(***************************************************************************)
Attempted == uep.before # None

\* C12: update_from_attempt(s) sets status to mastered when s >= 90, to
\* completed when 70 <= s < 90, and when s < 70 to in_progress only if the
\* status was locked or available, leaving any other status unchanged.
C12_StatusTransitions ==
    Attempted =>
        LET s == uep.overall_score[1]
            old == uep.before[1].status
            new == uep.progress.status
        IN  /\ s >= 90 => new = "mastered"
            /\ (70 <= s /\ s < 90) => new = "completed"
            /\ (s < 70 /\ old \in {"locked", "available"}) => new = "in_progress"
            /\ (s < 70 /\ old \notin {"locked", "available"}) => new = old

C12_Witness ==
    /\ Attempted
    /\ uep.overall_score[1] < 70
    /\ uep.before[1].status = "mastered"
    /\ uep.progress.status = "mastered"

C12_WitnessDowngrade ==
    /\ Attempted
    /\ uep.overall_score[1] = 89
    /\ uep.before[1].status = "mastered"
    /\ uep.progress.status = "completed"

\* C13: completed_at is stamped by the first attempt on the row that scores
\* >= 70 and is left unchanged by every later attempt, whatever its score.
C13_CompletedAtStampedOnce == uep.progress.completed_at = uep.first_pass


\* the stars C14 assigns to a best score
StarsOf(best_score) ==
    IF best_score = None THEN 0
    ELSE IF best_score[1] >= 90 THEN 3
    ELSE IF best_score[1] >= 80 THEN 2
    ELSE IF best_score[1] >= 70 THEN 1
    ELSE 0

FirstAttemptOf(s) == uep.now = 1 /\ uep.overall_score = Some(s)

\* C14: the stars of a progress row (calculate_stars, stars_earned in the
\* result of record_attempt, the row's term in get_total_stars) depend on
\* best_score alone: 0 when it is absent or < 70, 1 for 70..79, 2 for 80..89,
\* 3 from 90 on; a first attempt of 75 gives completed with 1 star, a first
\* attempt of 92 gives mastered with 3 stars.
C14_StarsFromBestScore ==
    /\ calculate_stars(uep.progress) = StarsOf(uep.progress.best_score)
    /\ total_stars_term(uep.progress) = StarsOf(uep.progress.best_score)
    /\ Attempted => uep.stars_earned = Some(StarsOf(uep.progress.best_score))
    /\ FirstAttemptOf(75) =>
           uep.progress.status = "completed" /\ uep.stars_earned = Some(1)
    /\ FirstAttemptOf(92) =>
           uep.progress.status = "mastered" /\ uep.stars_earned = Some(3)

\* a later, lower score changes the status but not the stars
C14_Witness ==
    /\ Attempted
    /\ uep.before[1].best_score = Some(92)
    /\ uep.overall_score = Some(79)
    /\ uep.progress.status = "completed"
    /\ uep.stars_earned = Some(3)

C14_WitnessFirst75 ==
    FirstAttemptOf(75) /\ uep.progress.status = "completed" /\ uep.stars_earned = Some(1)


-----------------------------------------------------------------------------
(***************************************************************************)
(* Properties of the bulk initializer (SpecProgression).                   *)
(***************************************************************************)
RowsOfUser(table, u) == {k \in DOMAIN table : k[1] = u}

\* C15: initialize_user_progress for a user with no rows creates one row per
\* active exercise, available for the exercise with order_index 1 and locked
\* for every other; invoked in any later state, after any attempts and
\* unlocks, it changes no existing row.
C15_InitializeIdempotent ==
    \A u \in Users :
        LET after == initialize_user_progress(progress, u)
        IN  /\ \A k \in DOMAIN progress : after[k] = progress[k]
            /\ RowsOfUser(progress, u) = {} =>
                   /\ RowsOfUser(after, u) = {<<u, e>> : e \in active}
                   /\ \A e \in active :
                          /\ after[<<u, e>>].status =
                                 IF order_index(e) = 1 THEN "available" ELSE "locked"
                          /\ after[<<u, e>>].best_score = None
                          /\ after[<<u, e>>].attempts_count = 0

\* a seeded user who has since completed one exercise and had the next unlocked
C15_Witness ==
    \E u \in Users :
        /\ RowsOfUser(progress, u) = {<<u, e>> : e \in ExerciseIds}
        /\ is_completed(progress[<<u, 1>>])
        /\ progress[<<u, 2>>].status = "available"
        /\ initialize_user_progress(progress, u) = progress


-----------------------------------------------------------------------------
(***************************************************************************)
(* Properties of the connection managers (SpecManagers).                   *)
(***************************************************************************)
HeldSet(m) == IF m.held = None THEN {} ELSE {m.held[1]}

\* C18: after any sequence of connect and disconnect calls on the relational
\* manager at most one pool is open, and it is the held one: connect closes
\* the pool held before it creates a new one, disconnect closes and clears it.
C18_AtMostOnePool ==
    /\ Cardinality(pg.open) <= 1
    /\ pg.open = HeldSet(pg)
    /\ pg.call = "disconnect" => pg.held = None /\ pg.open = {}

\* a second connect has replaced the first pool
C18_Witness ==
    /\ pg.call = "connect" /\ pg.pc = "idle"
    /\ pg.created = 2
    /\ pg.open = {2}

\* the outcome of the get call made last in this state
GetOutcome(m) ==
    IF m.held = None
    THEN m.got[1].raised
    ELSE /\ ~m.got[1].raised
         /\ m.got[1].value = m.held
         /\ m.held[1] \in m.open

\* C19: for both managers, get_pool / get_client raises in every state where
\* nothing is held (before the first connect, after a disconnect) and
\* otherwise returns the held pool / client, which has not been closed.
C19_GetFailsFast ==
    /\ pg.got # None => GetOutcome(pg)
    /\ mg.got # None => GetOutcome(mg)

C19_Witness ==
    /\ pg.got # None /\ pg.got[1].raised /\ pg.created > 0
    /\ mg.got # None /\ mg.got[1].value = Some(2)

\* one call on the document-store manager
MongoStep ==
    /\ mg'.call = "connect" =>
           IF mg.held # None
           THEN mg'.held = mg.held /\ mg'.created = mg.created /\ mg'.open = mg.open
           ELSE /\ mg'.held = Some(mg'.created)
                /\ mg'.created = mg.created + 1
                /\ mg'.open = {mg'.created}
    /\ mg'.call = "disconnect" => mg'.held = None /\ mg'.open = {}
    /\ mg'.created # mg.created => mg'.call = "connect" /\ mg.held = None

\* C20: connect on the document-store manager is idempotent: while a client
\* is held it creates none and keeps the same one; disconnect closes and
\* clears it, and only a connect issued after that creates a fresh client.
C20_MongoConnectIdempotent == [][mg' # mg => MongoStep]_vars

\* connect, get_client, connect again: still the first client
C20_Witness ==
    /\ mg.call = "connect"
    /\ mg.created = 1
    /\ mg.held = Some(1)
    /\ mg.got = None
    /\ pg.call = "get_pool"

-----------------------------------------------------------------------------
(***************************************************************************)
(* The batch tool.                                                         *)
(***************************************************************************)
Listed == {bt.exercises[k] : k \in 1..Len(bt.exercises)}

CachedBefore == DOMAIN bt.cache_before

\* C16: in a run without --force every exercise whose document was cached when
\* the run began keeps that document byte for byte, is never downloaded or
\* recomputed, and once the run has gone through the list is counted as
\* skipped; in a run with --force nothing is skipped, every exercise counted
\* as processed has had its document overwritten by this run, and once the run
\* has gone through the list every exercise whose steps all succeeded is
\* counted as processed.
C16_SkipUnlessForced ==
    /\ bt.skipped_count = Cardinality(bt.skipped)
    /\ bt.processed_count = Cardinality(bt.processed)
    /\ ~bt.force_recompute =>
          /\ \A e \in CachedBefore :
                /\ e \in DOMAIN cache /\ cache[e] = bt.cache_before[e]
                /\ e \notin bt.downloaded
                /\ e \notin bt.processed
          /\ bt.pc = "done" =>
                \A e \in Listed \cap CachedBefore : e \in bt.skipped
    /\ bt.force_recompute =>
          /\ bt.skipped = {}
          /\ \A e \in bt.processed :
                /\ e \in bt.downloaded
                /\ e \in DOMAIN cache /\ cache[e].cached_at = bt.run
          /\ bt.pc = "done" =>
                \A e \in Listed \ bt.raised : e \in bt.processed

\* a second run without --force has skipped every exercise the first one cached
C16_Witness ==
    /\ bt.run = 2 /\ ~bt.force_recompute /\ bt.pc = "done"
    /\ Cardinality(Listed) = NumExercises
    /\ bt.skipped = Listed
    /\ \A e \in Listed : cache[e].cached_at = 1

\* a second run with --force has overwritten what the first one cached
C16_WitnessForce ==
    /\ bt.run = 2 /\ bt.force_recompute /\ bt.pc = "done"
    /\ Listed # {} /\ CachedBefore = Listed
    /\ bt.processed = Listed
    /\ \A e \in Listed : cache[e].cached_at = 2 /\ bt.cache_before[e].cached_at = 1

RunEnded == bt.pc \in {"done", "aborted"}

\* C17: the run never stops short of its list: when it ends every exercise it
\* read is counted in exactly one of processed, failed and skipped, and the
\* failures counted are exactly the exercises one of whose steps (the cache
\* check, the download, the calculation, the save) raised.
C17_EveryExerciseTallied ==
    /\ bt.pc # "aborted"
    /\ RunEnded =>
          /\ bt.processed \cup bt.failed \cup bt.skipped = Listed
          /\ bt.processed \cap bt.failed = {}
          /\ bt.processed \cap bt.skipped = {}
          /\ bt.failed \cap bt.skipped = {}
          /\ bt.processed_count + bt.failed_count + bt.skipped_count
                = Len(bt.exercises)
          /\ bt.failed_count = Cardinality(bt.raised)

-----------------------------------------------------------------------------
(***************************************************************************)
(* The application bootstrap.                                              *)
(***************************************************************************)
StartupOrder ==
    << "postgres_connect", "mongo_connect", "configure_exercises",
       "initialize_exercises", "configure_audio", "initialize_audio" >>

IsPrefix(p, q) == Len(p) <= Len(q) /\ \A k \in 1..Len(p) : p[k] = q[k]

\* C21: the startup steps complete in the order relational store, document
\* store, modules configured and repositories initialised; a request is
\* dispatched only after all of them, with both stores held and handed to
\* the module, and its dependency gets a live pool or client; a startup step
\* that raises ends the process with the exception and no request is ever
\* dispatched; after shutdown neither store holds or has open a pool or client.
C21_ServeAfterStartup ==
    /\ IsPrefix(app.log, StartupOrder)
    /\ (app.pc = "serving" \/ app.served > 0) =>
          /\ app.log = StartupOrder
          /\ ~app.raised
    /\ app.pc = "serving" =>
          /\ pg.held # None /\ mg.held # None
          /\ app.audio_pool = pg.held /\ app.audio_client = mg.held
          /\ app.exercises_pool = pg.held /\ app.exercises_client = mg.held
    /\ app.answer # None => ~app.answer[1].raised /\ app.answer[1].live
    /\ app.raised <=> app.pc = "failed"
    /\ app.pc = "failed" => app.served = 0 /\ app.log # StartupOrder
    /\ app.pc = "stopped" =>
          /\ pg.held = None /\ pg.open = {}
          /\ mg.held = None /\ mg.open = {}

\* the application has served and has been shut down
C21_Witness ==
    /\ app.pc = "stopped" /\ app.served = MaxServed
    /\ pg.created = 1 /\ mg.created = 1

\* the exercises index creation raised: startup is aborted after three steps
C21_WitnessFailed ==
    /\ app.pc = "failed" /\ Len(app.log) = 3 /\ pg.held # None

-----------------------------------------------------------------------------
(***************************************************************************)
(* The attempt history.                                                    *)
(***************************************************************************)
Listing == ah.call = "get_user_attempts" /\ ah.response[1].kind = "return"

\* the attempts of the requester that match the filters of the request,
\* newest first
MatchingNewestFirst ==
    LET req == ah.request[1]
        Matches(r) ==
            /\ r.user_id = req.user_id
            /\ req.exercise_id # None => r.exercise_id = req.exercise_id[1]
            /\ req.status # None => r.status = req.status[1]
            /\ req.days # None => r.attempted_at >= Len(ah.table) - req.days[1]
    IN  SelectSeq(Reverse(ah.table), Matches)

\* C22: a listing with limit L and offset O over the N matching attempts
\* returns exactly the items at positions O .. min(O+L, N)-1 of their
\* newest-first ordering, has_more is true exactly when O+L < N, and the
\* effective limit is at most 100.
C22_PageOfNewestFirst ==
    Listing =>
        LET data == ah.response[1].data[1]
            N == Len(MatchingNewestFirst)
            L == data.limit
            O == ah.request[1].offset
            last == Min(O + L, N)
        IN  /\ L <= MaxPageSize
            /\ data.attempts = [k \in 1..(IF last > O THEN last - O ELSE 0) |->
                                   MatchingNewestFirst[O + k]]
            /\ data.has_more <=> O + L < N

ByIdRefused ==
    /\ ah.call = "get_attempt_by_id"
    /\ ah.failure \in {"missing", "not owned"}

\* C23: an attempt is returned only to its owner, and a request for a missing
\* attempt and a request for another user's attempt get the same status code
\* and the same message: the answer to a refused request equals, in both, the
\* answer to every other request that is refused.
C23_RefusalsIndistinguishable ==
    /\ (ah.call = "get_attempt_by_id" /\ ah.response[1].kind = "return") =>
           ah.response[1].data[1].user_id = ah.request[1].user_id
    /\ ByIdRefused =>
           \A attempt_id \in 1..(MaxRows + 1), user_id \in Users :
               LET other == controller_get_attempt_by_id(ah.table, attempt_id,
                                                         user_id, TRUE)
               IN  other.kind # "return" =>
                       /\ other.status_code = ah.response[1].status_code
                       /\ other.detail = ah.response[1].detail

\* C24: whatever goes wrong in a method of the attempt-history controller
\* leaves it as an HTTPException: 400 for an invalid status filter, 404 for a
\* missing or not-owned attempt, 500 for anything else; no other exception
\* leaves the method.
C24_FailuresAreHttpErrors ==
    ah.response # None =>
        LET response == ah.response[1]
        IN  /\ response.kind \in {"return", "HTTPException"}
            /\ ah.failure = "" <=> response.kind = "return"
            /\ ah.failure = "invalid status" => response.status_code = 400
            /\ ah.failure \in {"missing", "not owned"} => response.status_code = 404
            /\ ah.failure = "repository" => response.status_code = 500

-----------------------------------------------------------------------------
(***************************************************************************)
(* The quality score.                                                      *)
(***************************************************************************)
\* C25: whatever the duration, SNR, clipping, volume and silence findings
\* are, the score the validator computes lies in [0, 10], and validate
\* builds its QualityCheck without failing the range check.
C25_QualityScoreInRange ==
    /\ qc.quality_score # None =>
           0 <= qc.quality_score[1] /\ qc.quality_score[1] <= 100
    /\ qc.pc = "validated" =>
           /\ qc.raised = ""
           /\ qc.check # None
           /\ qc.check[1].quality_score = clamp(qc.raw[1])

\* the penalties stacked below zero and validate returned a check with score 0
C25_Witness ==
    /\ qc.pc = "validated" /\ qc.raw[1] < 0
    /\ qc.check # None /\ qc.check[1].quality_score = 0

\* both bonuses on an unpenalised audio: above ten before the last line
C25_WitnessBonus ==
    /\ qc.pc = "scored" /\ qc.raw[1] > 100 /\ qc.quality_score = Some(100)

-----------------------------------------------------------------------------
(***************************************************************************)
(* Interleaved record_attempt calls.                                       *)
(***************************************************************************)
\* the call of worker p has written its row
PastSave(p) == ra[p].pc \in {"get_exercise", "get_next", "unlock", "returned"}

\* two calls on one row that both read the same version of it
Interleaved(p, q) ==
    /\ p # q
    /\ PastSave(p) /\ PastSave(q)
    /\ ra[p].user_id = ra[q].user_id /\ ra[p].exercise_id = ra[q].exercise_id
    /\ ra[p].before = ra[q].before

BestOfThree(previous, s1, s2) ==
    LET m == Max(s1, s2)
    IN  IF previous = None THEN m ELSE Max(previous[1], m)

\* C26: when two record_attempt calls on the same (user, exercise) interleave
\* at their awaits, the row stored after both reflects both attempts:
\* attempts_count has grown by 2 and best_score is the maximum of the
\* previous best and the two scores.
C26_BothAttemptsStored ==
    \A p \in Workers, q \in Workers :
        Interleaved(p, q) =>
            LET key == <<ra[p].user_id, ra[p].exercise_id>>
                before == ra[p].before[1]
            IN  /\ progress[key].attempts_count = before.attempts_count + 2
                /\ progress[key].best_score =
                       Some(BestOfThree(before.best_score, ra[p].overall_score,
                                        ra[q].overall_score))

\* C27: under every interleaving of record_attempt calls a row once stored as
\* completed or mastered is never afterwards stored as locked, available or
\* in_progress.
C27_CompletedStaysCompleted ==
    [][\A k \in DOMAIN progress :
           is_completed(progress[k]) => is_completed(progress'[k])]_vars

\* C28: in every reachable state each row of an exercise with order_index > 1
\* whose status is not locked has a row of the same user for order_index - 1
\* with status completed or mastered.
C28_LinearPath ==
    \A k \in DOMAIN progress :
        (order_index(k[2]) > 1 /\ progress[k].status # "locked") =>
            \E j \in DOMAIN progress :
                /\ j[1] = k[1]
                /\ order_index(j[2]) = order_index(k[2]) - 1
                /\ is_completed(progress[j])

-----------------------------------------------------------------------------
(***************************************************************************)
(* The mastered status across later attempts.                              *)
(***************************************************************************)
\* C29: a progress row that has status mastered keeps status mastered after
\* every later update_from_attempt, whatever the score of that attempt.
C29_MasteredStaysMastered ==
    (Attempted /\ uep.before[1].status = "mastered") =>
        uep.progress.status = "mastered"

-----------------------------------------------------------------------------
(***************************************************************************)
(* The result of process_audio_complete against the stored row.            *)
(***************************************************************************)
ReturnedCompleted ==
    /\ pa.pc = "returned"
    /\ pa.result # None
    /\ pa.result[1].status = "completed"

\* C30: whenever process_audio_complete returns a result with status
\* completed and scores, the stored row of that attempt has status completed
\* and the same four scores, also when the final save failed.
C30_ResultNotAheadOfStore ==
    ReturnedCompleted =>
        LET result == pa.result[1]
        IN  /\ result.attempt_id # None
            /\ result.attempt_id[1] \in DOMAIN attempts
            /\ LET row == attempts[result.attempt_id[1]]
               IN  /\ row.status = "completed"
                   /\ row.pronunciation_score = result.scores["pronunciation"]
                   /\ row.fluency_score = result.scores["fluency"]
                   /\ row.rhythm_score = result.scores["rhythm"]
                   /\ row.overall_score = result.scores["overall"]

-----------------------------------------------------------------------------
(***************************************************************************)
(* The status of a stored attempt over time.                               *)
(***************************************************************************)
\* C31: the status of a persisted attempt changes only from pending_analysis
\* to completed (hence at most once): a completed row keeps its status and so
\* does a row created as quality_rejected.
C31_StatusChangesOnce ==
    [][\A id \in DOMAIN attempts :
           attempts'[id].status # attempts[id].status =>
               /\ attempts[id].status = "pending_analysis"
               /\ attempts'[id].status = "completed"]_vars

-----------------------------------------------------------------------------
(***************************************************************************)
(* Attempts recorded one after another.                                    *)
(***************************************************************************)
\* the step in which the call of p writes its row
Saves(p, k) ==
    /\ ra[p].pc = "save" /\ ra'[p].pc # "save"
    /\ k = <<ra[p].user_id, ra[p].exercise_id>>

BestAfter(best_score, s) ==
    IF best_score = None THEN Some(s) ELSE Some(Max(best_score[1], s))

\* C32: with record_attempt calls executed one after another, every call adds
\* one to the row's attempts_count and makes best_score the maximum of the
\* previous best and its score, and nothing else changes the two: after n
\* calls the count is the initial value plus n, best_score is the maximum of
\* the scores so far and never decreases.
C32_CountAndBestScore ==
    [][\A k \in DOMAIN progress :
           IF \E p \in Procs : Saves(p, k)
           THEN \E p \in Procs :
                    /\ Saves(p, k)
                    /\ progress'[k].attempts_count = progress[k].attempts_count + 1
                    /\ progress'[k].best_score =
                           BestAfter(progress[k].best_score, ra[p].overall_score)
           ELSE /\ progress'[k].attempts_count = progress[k].attempts_count
                /\ progress'[k].best_score = progress[k].best_score]_vars

\* three calls on one row, the last of them below the best so far
C32_Witness ==
    \E k \in DOMAIN progress, p \in Procs :
        /\ ra[p].pc = "returned"
        /\ k = <<ra[p].user_id, ra[p].exercise_id>>
        /\ progress[k].attempts_count = 3
        /\ progress[k].best_score = Some(90)
        /\ ra[p].overall_score = 69

-----------------------------------------------------------------------------
(***************************************************************************)
(* record_attempt for a pair without a progress row.                       *)
(***************************************************************************)
\* the call of p has ended and had found no row for its pair
EndedWithoutRow(p) ==
    /\ ra[p].pc \in {"returned", "raised"}
    /\ ra[p].before = None

\* C33: record_attempt for a (user, exercise) pair without a progress row
\* creates the row and saves it: the call succeeds and leaves the pair's row
\* with attempts_count 1 and best_score equal to the given score.
C33_CreatesMissingRow ==
    \A p \in Procs :
        EndedWithoutRow(p) =>
            LET k == <<ra[p].user_id, ra[p].exercise_id>>
            IN  /\ ra[p].pc = "returned"
                /\ k \in DOMAIN progress
                /\ progress[k].attempts_count = 1
                /\ progress[k].best_score = Some(ra[p].overall_score)

-----------------------------------------------------------------------------
(***************************************************************************)
(* The exercise map against the access gate.                               *)
(***************************************************************************)
\* C34: for every user and every exercise the map lists, the map reports
\* the status locked exactly when can_access_exercise is false for it.
C34_MapAgreesWithGate ==
    \A u \in Users, e \in active :
        (exercise_map_status(u, e) = "locked") <=> ~Truthy(can_access_exercise(u, e))

-----------------------------------------------------------------------------
(***************************************************************************)
(* Refused requests and the progress rows.                                 *)
(***************************************************************************)
RefusalCodes == {Some(404), Some(403), Some(400)}

\* a step of the POST /audio/process request that does not end it with a
\* status outside 404, 403 and 400
StepOfRefusable ==
    /\ rt' # rt
    /\ rt'.pc = "done" => rt'.status_code \in RefusalCodes

\* C35: a POST /audio/process request that ends with 404, 403 or 400 leaves
\* every user_exercise_progress row as it was: none of its steps changes a
\* count, a status or a best score, and none unlocks.
C35_RefusedLeavesProgress == [][StepOfRefusable => progress' = progress]_vars

\* a request for a locked exercise refused with 403 while the user has rows
C35_Witness403 ==
    /\ rt.pc = "done" /\ rt.status_code = Some(403)
    /\ <<rt.user_id, rt.exercise[1]>> \in DOMAIN progress

\* a request for an unknown exercise refused with 404 while the user has rows
C35_Witness404 ==
    /\ rt.pc = "done" /\ rt.status_code = Some(404)
    /\ \E k \in DOMAIN progress : k[1] = rt.user_id

-----------------------------------------------------------------------------
(***************************************************************************)
(* Progress along the path.                                                *)
(***************************************************************************)
\* u is the user who is submitting
Submitting(u) == ra[1].pc # "idle" /\ ra[1].user_id = u

AllAccessible(u) == \A e \in active : Truthy(can_access_exercise(u, e))

\* C36: a user who keeps submitting passing attempts on the lowest-ordinal
\* active exercise not yet completed eventually has access to every active
\* exercise, also when an exercise of the path has been deactivated.
C36_EventuallyAllAccessible ==
    \A u \in Users : [](Submitting(u) => <>AllAccessible(u))

-----------------------------------------------------------------------------
-----------------------------------------------------------------------------
(***************************************************************************)
(* The rejection reason.                                                   *)
(***************************************************************************)
\* the reason that belongs to the highest-priority condition the
\* measurements show: too short, too long, low SNR, clipping, silence, low
\* volume; the generic reason when they show none of them
ReasonByPriority ==
    IF Lt(qc.duration, 3) THEN "El audio es muy corto"
    ELSE IF Gt(qc.duration, 100) THEN "El audio es muy largo"
    ELSE IF Lt(qc.snr_db, 10) THEN "Demasiado ruido de fondo"
    ELSE IF qc.has_clipping THEN "Audio saturado"
    ELSE IF qc.is_silent THEN "No se detecto voz"
    ELSE IF Lt(qc.volume_level, 10) THEN "Volumen muy bajo"
    ELSE "La calidad del audio no es aceptable"

Invalidated ==
    /\ qc.pc = "validated" /\ qc.check # None
    /\ ~qc.check[1].is_valid

\* C38: for every invalid validation result the rejection reason is the one
\* of the highest-priority condition present, in the order too short, too
\* long, low SNR, clipping, silence, low volume; the generic reason is used
\* only when none of the six is present.
C38_ReasonByPriority ==
    Invalidated => qc.check[1].rejection_reason = ReasonByPriority

\* too short and noisy at once: the reason is the one for too short
C38_Witness ==
    /\ Invalidated
    /\ Lt(qc.duration, 3) /\ Lt(qc.snr_db, 10) /\ qc.has_clipping
    /\ qc.check[1].rejection_reason = "El audio es muy corto"

\* clipping and silence at once: the reason is the one for clipping
C38_WitnessClipping ==
    /\ Invalidated
    /\ qc.has_clipping /\ qc.is_silent
    /\ qc.check[1].rejection_reason = "Audio saturado"

-----------------------------------------------------------------------------
(***************************************************************************)
(* C39.  Pause detection returns exactly the maximal runs of silent frames *)
(* that last at least 0.15 s.                                              *)
(***************************************************************************)
\* the maximal runs of consecutive silent frames, as << first, last >> frames
SilentRuns(is_silent) ==
    {r \in (DOMAIN is_silent) \X (DOMAIN is_silent) :
        /\ r[1] <= r[2]
        /\ \A i \in r[1]..r[2] : is_silent[i]
        /\ r[1] = 1 \/ ~is_silent[r[1] - 1]
        /\ r[2] = Len(is_silent) \/ ~is_silent[r[2] + 1]}

\* the time a run lasts: from the start of its first frame to the start of the
\* frame that follows it, or to the end of the signal when none follows
RunDuration(r, is_silent, samples) ==
    (IF r[2] = Len(is_silent) THEN samples ELSE frames_to_time(r[2]))
        - frames_to_time(r[1] - 1)

\* the runs that last 0.15 s or more
LongRuns(is_silent, samples) ==
    {r \in SilentRuns(is_silent) :
        reaches_min_pause(RunDuration(r, is_silent, samples))}

\* the frame with 1-based index i lies in one of the speech segments
CountsAsSpeech(i) ==
    \E k \in DOMAIN rh.speech_segments :
        /\ rh.speech_segments[k][1] <= frames_to_time(i - 1)
        /\ frames_to_time(i - 1) <= rh.speech_segments[k][2]

\* C39: after extract, the pauses are exactly the maximal silent runs of at
\* least 0.15 s, one pause per run starting where the run starts, in time order
\* and non-overlapping, a run that lasts until the final frame included; every
\* frame outside these runs that starts before the signal ends lies in a speech
\* segment.
C39_PausesAreLongSilentRuns ==
    rh.pc = "done" =>
        /\ {rh.pauses[k][1] : k \in DOMAIN rh.pauses}
               = {frames_to_time(r[1] - 1) : r \in LongRuns(rh.is_silent, rh.samples)}
        /\ Len(rh.pauses) = Cardinality(LongRuns(rh.is_silent, rh.samples))
        /\ \A k \in DOMAIN rh.pauses : rh.pauses[k][1] < rh.pauses[k][2]
        /\ \A k \in 1..(Len(rh.pauses) - 1) : rh.pauses[k][2] <= rh.pauses[k + 1][1]
        /\ \A i \in DOMAIN rh.is_silent :
               (/\ frames_to_time(i - 1) < rh.samples
                /\ \A r \in LongRuns(rh.is_silent, rh.samples) : i < r[1] \/ i > r[2])
                   => CountsAsSpeech(i)

-----------------------------------------------------------------------------
(***************************************************************************)
(* C40.  The batch tool deletes the temporary audio file of an exercise    *)
(* before it moves on.                                                     *)
(***************************************************************************)
\* C40: a temporary audio file on disk belongs to the exercise the tool is
\* working on (its features being calculated or saved): once the tool has moved
\* on to the next exercise, and after the run, no temporary file remains,
\* whether calculation and saving succeeded or raised.
C40_TempFileDeletedBeforeNext ==
    \A e \in bt.temp_files :
        /\ bt.pc \in {"calculate", "save"}
        /\ e = bt.exercises[bt.i]

=============================================================================
